---- MODULE Spec2Model ----
(***************************************************************************)
(* npmsafe: the secret scanner (src/src/scanners/secret-scanner.ts) and    *)
(* the secret diff auditor (class SecretDiffAuditor, src/src/cli.ts from   *)
(* line 1530 on) as state machines.                                        *)
(*                                                                         *)
(* Nine specifications share the module's variables:                       *)
(*   SpecDiff       computeDiff / calculateRiskLevel on drawn inputs       *)
(*   SpecSelfDiff   computeDiff applied to a drawn list and itself         *)
(*   SpecAudit      an auditor instance over the persisted audit log       *)
(*   SpecLog        two auditor instances over one persisted audit log     *)
(*   SpecScan       a scanner instance: registry, allow-list, requests     *)
(*   SpecCustomScan scans by a scanner built with one custom pattern       *)
(*   SpecThreshold  scans under thresholds below, at and above zero        *)
(*   SpecRegistry   addPattern and addAllowedSecret on an idle scanner     *)
(*   SpecReport     generateReport applied to drawn finding lists          *)
(* Each leaves the variables of the others at their idle values.           *)
(***************************************************************************)
EXTENDS Integers, Sequences, FiniteSets, TLC

VARIABLES
    dBaseline,   \* computeDiff's argument `baseline`
    dCurrent,    \* computeDiff's argument `current`
    dResult,     \* the SecretDiffResult returned, None before the call
    dPrevRisk,   \* riskLevel of the diff before one more finding was added
    dPc,         \* "input" | "diffed" | "grown"
    auditFile,   \* .npmsafe-audit.json: [exists, valid, text]
    history,     \* per auditor instance: this.history
    constructed, \* per auditor instance: has the constructor run
    clock,       \* wall clock in ms read by new Date()
    calls,       \* auditDiff calls made so far
    lastCall,    \* the last auditDiff call: arguments, baseline chosen, result
    appended,    \* the records the auditDiff calls have appended, in call order
    lastQuery,   \* the last getAuditHistory call since the last auditDiff call
    customPatterns, \* this.customPatterns
    allowedSecrets, \* this.allowedSecrets
    regexIndex,  \* lastIndex of the RegExp objects the scanner matches with
    scanPc,      \* "idle" | "inline" | "fs": where the running scan stands
    scanOptions, \* the options of the running scan
    units,       \* the content units of the running scan, in order
    nextUnit,    \* index of the unit the loop is about to check
    scanResults, \* scan's local `results`
    elapsed,     \* Date.now() - startTime of the running scan
    started,     \* the units the running scan has started, by index
    atStart,     \* the registry and allow-list when the running scan was called
    scans,       \* scan calls made so far
    lastScan,    \* the last scan that returned
    prevScan,    \* the scan that returned before it
    rResults,    \* generateReport's argument `results`
    rReport      \* the report returned, None before the call

diffVars  == <<dBaseline, dCurrent, dResult, dPrevRisk, dPc>>
auditVars == <<auditFile, history, constructed, clock, calls, lastCall, appended,
               lastQuery>>
scanVars  == <<customPatterns, allowedSecrets, regexIndex, scanPc, scanOptions,
               units, nextUnit, scanResults, elapsed, started, atStart, scans,
               lastScan, prevScan>>
reportVars == <<rResults, rReport>>
vars      == <<diffVars, auditVars, scanVars, reportVars>>

\* An optional value (a JavaScript value that may be undefined) is a sequence
\* of length at most one.
None == <<>>
Some(x) == <<x>>

(***************************************************************************)
(* Sequence helpers                                                        *)
(***************************************************************************)
Range(s) == {s[i] : i \in 1..Len(s)}

SeqMap(Op(_), s) == [i \in 1..Len(s) |-> Op(s[i])]

\* Array.prototype.slice(-n) for n >= 1: the last n elements (all when fewer).
SliceLast(s, n) ==
    IF Len(s) <= n THEN s ELSE SubSeq(s, Len(s) - n + 1, Len(s))

\* All sequences over S of length at most n.
SeqsUpTo(S, n) == UNION {[1..k -> S] : k \in 0..n}

(***************************************************************************)
(* SecretScanResult as the auditor reads it: file, line, pattern.name,     *)
(* pattern.severity, value, entropy (entropy in thousandths).              *)
(***************************************************************************)
Severities == {"low", "medium", "high", "critical"}

Secret(file, line, name, severity, value, entropy) ==
    [file |-> file, line |-> line, column |-> 1,
     pattern |-> [name |-> name, severity |-> severity],
     value |-> value, entropy |-> entropy]

(***************************************************************************)
(* SecretDiffAuditor.computeDiff and its helpers                           *)
(***************************************************************************)
\* `${secret.file}:${secret.line}:${secret.pattern.name}`
getSecretKey(secret) ==
    secret.file \o ":" \o ToString(secret.line) \o ":" \o secret.pattern.name

hasSecretChanged(old, current) ==
    \/ old.value # current.value
    \/ old.entropy # current.entropy
    \/ old.pattern.severity # current.pattern.severity

\* new Map filled by list.forEach(s => map.set(key(s), s)): a later entry with
\* the same key overwrites an earlier one.
SecretMap(list) ==
    LET keys == {getSecretKey(list[i]) : i \in 1..Len(list)}
        lastAt(k) == CHOOSE i \in 1..Len(list) :
                        /\ getSecretKey(list[i]) = k
                        /\ \A j \in (i + 1)..Len(list) : getSecretKey(list[j]) # k
    IN  [k \in keys |-> list[lastAt(k)]]

getSeverityWeight(severity) ==
    CASE severity = "critical" -> 4
      [] severity = "high"     -> 3
      [] severity = "medium"   -> 2
      [] severity = "low"      -> 1
      [] OTHER                 -> 0

\* The forEach/switch counting of one severity over a list of findings.
CountSeverity(list, severity) ==
    Len(SelectSeq(list, LAMBDA s : s.pattern.severity = severity))

\* The modifications whose severity increased, as their new findings.
Escalated(modified) ==
    SeqMap(LAMBDA m : m.newSecret,
           SelectSeq(modified, LAMBDA m :
               getSeverityWeight(m.newSecret.pattern.severity)
                   > getSeverityWeight(m.old.pattern.severity)))

RiskFromCounts_eq1(criticalCount, highCount, mediumCount) ==
    IF criticalCount = 1 THEN "critical"
    ELSE IF highCount > 2 THEN "high"
    ELSE IF highCount > 0 \/ mediumCount > 5 THEN "medium"
    ELSE "low"

RiskFromCounts_ge(criticalCount, highCount, mediumCount) ==
    IF criticalCount > 0 THEN "critical"
    ELSE IF highCount >= 2 THEN "high"
    ELSE IF highCount > 0 \/ mediumCount >= 5 THEN "medium"
    ELSE "low"

\* The four return statements of calculateRiskLevel.
RiskFromCounts(criticalCount, highCount, mediumCount) ==
    IF criticalCount > 0 THEN "critical"
    ELSE IF highCount > 2 THEN "high"
    ELSE IF highCount > 0 \/ mediumCount > 5 THEN "medium"
    ELSE "low"

calculateRiskLevel_countRemoved(added, removed, modified) ==
    LET esc == Escalated(modified)
        criticalCount == CountSeverity(added \o removed, "critical") + CountSeverity(esc, "critical")
        highCount     == CountSeverity(added \o removed, "high") + CountSeverity(esc, "high")
        mediumCount   == CountSeverity(added \o removed, "medium") + CountSeverity(esc, "medium")
    IN  RiskFromCounts(criticalCount, highCount, mediumCount)

\* cli.ts 1681-1714: `removed` is not read.
calculateRiskLevel(added, removed, modified) ==
    LET esc == Escalated(modified)
        criticalCount == CountSeverity(added, "critical") + CountSeverity(esc, "critical")
        highCount     == CountSeverity(added, "high") + CountSeverity(esc, "high")
        mediumCount   == CountSeverity(added, "medium") + CountSeverity(esc, "medium")
    IN  RiskFromCounts(criticalCount, highCount, mediumCount)

\* cli.ts 1643-1649: baseline findings whose key is in currentMap and changed.
ModifiedOf(baseline, current) ==
    LET currentMap == SecretMap(current)
        hit == SelectSeq(baseline, LAMBDA b :
                   /\ getSecretKey(b) \in DOMAIN currentMap
                   /\ hasSecretChanged(b, currentMap[getSecretKey(b)]))
    IN  SeqMap(LAMBDA b : [old |-> b, newSecret |-> currentMap[getSecretKey(b)]], hit)

\* cli.ts 1652-1658: baseline findings whose key is in currentMap and did not
\* change, reported as the current finding.
UnchangedOf(baseline, current) ==
    LET currentMap == SecretMap(current)
        hit == SelectSeq(baseline, LAMBDA b :
                   /\ getSecretKey(b) \in DOMAIN currentMap
                   /\ ~hasSecretChanged(b, currentMap[getSecretKey(b)]))
    IN  SeqMap(LAMBDA b : currentMap[getSecretKey(b)], hit)

\* cli.ts 1627-1632
AddedOf(baseline, current) ==
    LET baselineMap == SecretMap(baseline)
    IN  SelectSeq(current, LAMBDA s : getSecretKey(s) \notin DOMAIN baselineMap)

\* cli.ts 1635-1640
RemovedOf(baseline, current) ==
    LET currentMap == SecretMap(current)
    IN  SelectSeq(baseline, LAMBDA s : getSecretKey(s) \notin DOMAIN currentMap)

computeDiff(baseline, current) ==
    LET added     == AddedOf(baseline, current)
        removed   == RemovedOf(baseline, current)
        modified  == ModifiedOf(baseline, current)
        unchanged == UnchangedOf(baseline, current)
    IN  [added |-> added, removed |-> removed,
         modified |-> modified, unchanged |-> unchanged,
         summary |-> [totalAdded |-> Len(added),
                      totalRemoved |-> Len(removed),
                      totalModified |-> Len(modified),
                      totalUnchanged |-> Len(unchanged),
                      riskLevel |-> calculateRiskLevel(added, removed, modified)]]

(***************************************************************************)
(* SecretDiffAuditor: the audit history and its persistence                *)
(***************************************************************************)
Auditors == {"A1", "A2"}

HistoryCap == 50   \* "Keep only last 50 audits"

\* The audit file before anything was written to it.
AbsentFile == [exists |-> FALSE, valid |-> FALSE, text |-> <<>>]

\* A file whose content JSON.parse rejects.
CorruptFile == [exists |-> TRUE, valid |-> FALSE, text |-> <<>>]

\* JSON.stringify(this.history, null, 2): the records as plain data. Every
\* field the auditor reads back (version, timestamp, secrets and their file,
\* line, pattern.name, pattern.severity, value, entropy, and the diff) is a
\* string, a finite number, an array or a plain object, which JSON keeps.
JSONStringify(records) ==
    [exists |-> TRUE, valid |-> TRUE, text |-> records]

\* cli.ts 1726-1736: the history a new instance starts with.
loadAuditHistory(file) ==
    IF file.exists
    THEN IF file.valid THEN file.text   \* JSON.parse(data)
         ELSE <<>>                      \* catch: this.history = []
    ELSE <<>>                           \* the field initialiser

\* A Date: new Date(string). valid = FALSE is Invalid Date (time value NaN).
DateOf(ms) == [valid |-> TRUE, ms |-> ms]
InvalidDate == [valid |-> FALSE, ms |-> 0]

\* new Date(audit.timestamp) >= sinceDate, the timestamp being the
\* toISOString() of a valid Date (millisecond precision, parsed back to the
\* same time value); a comparison with NaN is false.
AtOrAfter(timestamp, sinceDate) == sinceDate.valid /\ timestamp >= sinceDate.ms

\* The oldest record in place of the newest.
getLastAudit_first(h) == IF Len(h) > 0 THEN Some(h[1]) ELSE None

\* cli.ts 1753-1755
getLastAudit(h) == IF Len(h) > 0 THEN Some(h[Len(h)]) ELSE None

\* cli.ts 1757-1767
getSecretsSince_fallback(h, sinceDate) ==
    LET relevantAudits == SelectSeq(h, LAMBDA audit : AtOrAfter(audit.timestamp, sinceDate))
    IN  IF Len(relevantAudits) = 0
        THEN IF Len(h) > 0 THEN h[Len(h)].secrets ELSE <<>>
        ELSE relevantAudits[Len(relevantAudits)].secrets

getSecretsSince(h, sinceDate) ==
    LET relevantAudits == SelectSeq(h, LAMBDA audit : AtOrAfter(audit.timestamp, sinceDate))
    IN  IF Len(relevantAudits) = 0 THEN <<>>
        ELSE relevantAudits[Len(relevantAudits)].secrets

\* findLast in place of find: the newest record with the label.
getSecretsForVersion_last(h, version) ==
    LET found == SelectSeq(h, LAMBDA audit : audit.version = version)
    IN  IF Len(found) > 0 THEN found[Len(found)].secrets ELSE <<>>

\* cli.ts 1769-1772: Array.prototype.find returns the first match.
getSecretsForVersion(h, version) ==
    LET found == SelectSeq(h, LAMBDA audit : audit.version = version)
    IN  IF Len(found) > 0 THEN found[1].secrets ELSE <<>>

\* JavaScript truthiness of an optional string: undefined and "" are falsy.
TruthyString(opt) == opt # None /\ opt[1] # ""

SelectBaseline_versionFirst(h, since, version, compareTo) ==
    IF compareTo # None THEN compareTo[1]
    ELSE IF TruthyString(version) THEN getSecretsForVersion(h, version[1])
    ELSE IF since # None THEN getSecretsSince(h, since[1])
    ELSE LET lastAudit == getLastAudit(h)
         IN  IF lastAudit # None THEN lastAudit[1].secrets ELSE <<>>

\* cli.ts 1576-1591. `since` is carried as the Date that new Date(since)
\* yields, so a supplied `since` is a non-empty string; an array is truthy
\* even when empty.
SelectBaseline(h, since, version, compareTo) ==
    IF compareTo # None THEN compareTo[1]
    ELSE IF since # None THEN getSecretsSince(h, since[1])
    ELSE IF TruthyString(version) THEN getSecretsForVersion(h, version[1])
    ELSE LET lastAudit == getLastAudit(h)
         IN  IF lastAudit # None THEN lastAudit[1].secrets ELSE <<>>

\* this.history.unshift(audit): the new record put first.
saveAudit_unshift(h, audit) ==
    LET pushed == <<audit>> \o h
    IN  IF Len(pushed) > HistoryCap THEN SliceLast(pushed, HistoryCap) ELSE pushed

saveAudit_keepOldest(h, audit) ==
    LET pushed == Append(h, audit)
    IN  IF Len(pushed) > HistoryCap THEN SubSeq(pushed, 1, HistoryCap) ELSE pushed

\* cli.ts 1738-1744: the in-memory history after the push and the cut.
saveAudit(h, audit) ==
    LET pushed == Append(h, audit)
    IN  IF Len(pushed) > HistoryCap THEN SliceLast(pushed, HistoryCap) ELSE pushed

\* Array.prototype.slice(start) for an integer start: a negative start counts
\* from the end, and -0 is 0.
Slice(s, start) ==
    SubSeq(s,
           (IF start < 0
            THEN (IF Len(s) + start > 0 THEN Len(s) + start ELSE 0)
            ELSE (IF start < Len(s) THEN start ELSE Len(s))) + 1,
           Len(s))

\* cli.ts 1815-1817: this.history.slice(-limit)
getAuditHistory(h, limit) == Slice(h, 0 - limit)

\* version || 'current'
VersionLabel(version) == IF TruthyString(version) THEN version[1] ELSE "current"

(***************************************************************************)
(* SecretScanner: characters, regular expressions, entropy                 *)
(*                                                                         *)
(* A line of content is a sequence of one-character strings. A regular     *)
(* expression is a sequence of alternatives (the top-level `|`), each a    *)
(* sequence of atoms; an atom is a character class with a repetition       *)
(* range, matched greedily with backtracking as the RegExp engine does.    *)
(***************************************************************************)
Digits  == {"0", "1", "2", "3", "4", "5", "6", "7", "8", "9"}
HexLow  == Digits \cup {"a", "b", "c", "d", "e", "f"}
Lowers  == {"a", "b", "c", "d", "e", "f", "g", "h", "i", "j", "k", "l", "m",
            "n", "o", "p", "q", "r", "s", "t", "u", "v", "w", "x", "y", "z"}
Uppers  == {"A", "B", "C", "D", "E", "F", "G", "H", "I", "J", "K", "L", "M",
            "N", "O", "P", "Q", "R", "S", "T", "U", "V", "W", "X", "Y", "Z"}
Alnum   == Lowers \cup Uppers \cup Digits
WordCh  == Alnum \cup {"_"}           \* \w
Spaces  == {" ", "\t"}                \* \s within one line

Unbounded == 1000000                  \* the upper end of +, * and {n,}

\* [chars]{min,max}; negated = TRUE is [^chars]{min,max}
Rep(chars, min, max) ==
    [lit |-> <<>>, chars |-> chars, negated |-> FALSE, min |-> min, max |-> max]
NotRep(chars, min, max) ==
    [lit |-> <<>>, chars |-> chars, negated |-> TRUE, min |-> min, max |-> max]
\* a literal string, as one atom
Lit(text) ==
    <<[lit |-> text, chars |-> {}, negated |-> FALSE, min |-> 1, max |-> 1]>>

InClass(atom, ch) == (ch \in atom.chars) # atom.negated

MinOf(S) == CHOOSE x \in S : \A y \in S : x <= y
MaxOf(S) == CHOOSE x \in S : \A y \in S : y <= x

\* The last position a run of at most `most` characters from i can reach.
RunLimit(line, i, most) ==
    IF i + most - 1 < Len(line) THEN i + most - 1 ELSE Len(line)

\* How many characters from position i on belong to the atom's class, counted
\* up to `most`: the run stops at the first character outside the class.
RunLength(atom, line, i, most) ==
    MinOf({j \in i..(RunLimit(line, i, most) + 1) :
              j = RunLimit(line, i, most) + 1 \/ ~InClass(atom, line[j])}) - i

\* The position after the match of atoms k.. at position i, 0 when there is
\* none. A literal matches its text; a class takes as many characters as it
\* can and gives them back one by one until the rest matches: of the lengths
\* `fits` with which the rest matches, the longest is taken.
RECURSIVE MatchEnd(_, _, _, _)
RECURSIVE Greedy(_, _, _, _, _)
MatchEnd(atoms, k, line, i) ==
    IF k > Len(atoms) THEN i
    ELSE IF atoms[k].lit # <<>>
    THEN IF /\ i + Len(atoms[k].lit) - 1 <= Len(line)
            /\ SubSeq(line, i, i + Len(atoms[k].lit) - 1) = atoms[k].lit
         THEN MatchEnd(atoms, k + 1, line, i + Len(atoms[k].lit))
         ELSE 0
    ELSE Greedy(atoms, k, line, i,
             {n \in atoms[k].min..RunLength(atoms[k], line, i, atoms[k].max) :
                 MatchEnd(atoms, k + 1, line, i + n) # 0})

Greedy(atoms, k, line, i, fits) ==
    IF fits = {} THEN 0 ELSE MatchEnd(atoms, k + 1, line, i + MaxOf(fits))

\* The match at position i of the first of the alternatives `hits` that match
\* there.
FirstAlternative(alts, line, i, hits) ==
    IF hits = {} THEN 0 ELSE MatchEnd(alts[MinOf(hits)], 1, line, i)

MatchAt(alts, line, i) ==
    FirstAlternative(alts, line, i,
        {a \in 1..Len(alts) : MatchEnd(alts[a], 1, line, i) # 0})

\* The match at the leftmost of the positions `starts` where there is one, as
\* [index (0-based), end (0-based, exclusive)]; None when there is none.
Leftmost(alts, line, starts) ==
    IF starts = {} THEN None
    ELSE Some([index |-> MinOf(starts) - 1,
               end |-> MatchAt(alts, line, MinOf(starts)) - 1])

\* RegExp.prototype.exec from position i on.
Exec(alts, line, i) ==
    Leftmost(alts, line, {j \in i..(Len(line) + 1) : MatchAt(alts, line, j) # 0})

\* The matches a global regular expression yields from lastIndex on, each
\* search resuming where the previous match m ended (one further on after an
\* empty match).
RECURSIVE MatchesFrom(_, _, _)
RECURSIVE MatchesAfter(_, _, _)
MatchesFrom(alts, line, lastIndex) ==
    MatchesAfter(alts, line, Exec(alts, line, lastIndex + 1))

MatchesAfter(alts, line, m) ==
    IF m = None THEN <<>>
    ELSE <<m[1]>> \o MatchesFrom(alts, line,
             IF m[1].end = m[1].index THEN m[1].end + 1 ELSE m[1].end)

\* The string made of the characters lo..hi of a sequence.
RECURSIVE TextOf(_, _, _)
TextOf(chars, lo, hi) ==
    IF lo > hi THEN ""
    ELSE IF lo = hi THEN chars[lo]
    ELSE TextOf(chars, lo, (lo + hi) \div 2) \o TextOf(chars, (lo + hi) \div 2 + 1, hi)

Text(chars) == TextOf(chars, 1, Len(chars))

\* match[0] of a match on a line, as characters.
Matched(line, m) == SubSeq(line, m.index + 1, m.end)

\* 1000 * log2(k), rounded, for k = 1..64
Log2Milli == <<0, 1000, 1585, 2000, 2322, 2585, 2807, 3000, 3170, 3322, 3459, 3585, 3700, 3807, 3907, 4000, 4087, 4170, 4248, 4322, 4392, 4459, 4524, 4585, 4644, 4700, 4755, 4807, 4858, 4907, 4954, 5000, 5044, 5087, 5129, 5170, 5209, 5248, 5285, 5322, 5358, 5392, 5426, 5459, 5492, 5524, 5555, 5585, 5615, 5644, 5672, 5700, 5728, 5755, 5781, 5807, 5833, 5858, 5883, 5907, 5931, 5954, 5977, 6000>>

\* The sum of f[lo..hi].
RECURSIVE SumOf(_, _, _)
SumOf(f, lo, hi) ==
    IF lo > hi THEN 0
    ELSE IF lo = hi THEN f[lo]
    ELSE SumOf(f, lo, (lo + hi) \div 2) + SumOf(f, (lo + hi) \div 2 + 1, hi)

\* charCount[ch] of calculateEntropy
CharCount(chars, ch) == Cardinality({i \in 1..Len(chars) : chars[i] = ch})

\* calculateEntropy in thousandths: -sum p log2 p over the characters of a
\* string of n characters is log2 n - (sum c log2 c) / n over their counts c,
\* and sum c log2 c is the sum, over the positions of the string, of log2 of
\* the count of the character at the position.
calculateEntropy(chars) ==
    IF Len(chars) = 0 THEN 0
    ELSE (Len(chars) * Log2Milli[Len(chars)]
            - SumOf([i \in 1..Len(chars) |-> Log2Milli[CharCount(chars, chars[i])]],
                    1, Len(chars))) \div Len(chars)

(***************************************************************************)
(* SecretScanner: the pattern registry                                     *)
(***************************************************************************)
\* :\/\/[^:\s]+:[^@\s]+@[^:\s]+:\d+
DatabaseUrlRest ==
    Lit(<<":", "/", "/">>) \o
    <<NotRep({":"} \cup Spaces, 1, Unbounded), Rep({":"}, 1, 1),
      NotRep({"@"} \cup Spaces, 1, Unbounded), Rep({"@"}, 1, 1),
      NotRep({":"} \cup Spaces, 1, Unbounded), Rep({":"}, 1, 1),
      Rep(Digits, 1, Unbounded)>>

\* [a-zA-Z0-9._%+-]+@[a-zA-Z0-9.-]+\.[a-zA-Z]{2,}
EmailAddress ==
    <<Rep(Alnum \cup {".", "_", "%", "+", "-"}, 1, Unbounded), Rep({"@"}, 1, 1),
      Rep(Alnum \cup {".", "-"}, 1, Unbounded), Rep({"."}, 1, 1),
      Rep(Lowers \cup Uppers, 2, Unbounded)>>

\* this.defaultPatterns. entropy is the pattern's minimum-entropy gate in
\* thousandths, 0 when the pattern declares none; flags are the flags of the
\* pattern's RegExp.
defaultPatterns == <<
    [name |-> "AWS Access Key", description |-> "AWS Access Key ID", severity |-> "critical", entropy |-> 0,
     flags |-> {},
     alts |-> <<Lit(<<"A", "K", "I", "A">>) \o <<Rep(Digits \cup Uppers, 12, 12)>>>>],
    [name |-> "AWS Secret Key", description |-> "AWS Secret Access Key", severity |-> "critical", entropy |-> 4500,
     flags |-> {},
     alts |-> <<<<Rep(Alnum \cup {"/", "+"}, 40, 40)>>>>],
    [name |-> "GitHub Token", description |-> "GitHub Personal Access Token", severity |-> "high", entropy |-> 0,
     flags |-> {},
     alts |-> <<Lit(<<"g", "h", "p", "_">>) \o <<Rep(Alnum, 36, 36)>>>>],
    [name |-> "GitHub OAuth Token", description |-> "GitHub OAuth Token", severity |-> "high", entropy |-> 0,
     flags |-> {},
     alts |-> <<Lit(<<"g", "h", "o", "_">>) \o <<Rep(Alnum, 36, 36)>>>>],
    [name |-> "NPM Token", description |-> "NPM Access Token", severity |-> "high", entropy |-> 0,
     flags |-> {},
     alts |-> <<Lit(<<"n", "p", "m", "_">>) \o <<Rep(Alnum, 36, 36)>>>>],
    [name |-> "Stripe Secret Key", description |-> "Stripe Live Secret Key", severity |-> "critical", entropy |-> 0,
     flags |-> {},
     alts |-> <<Lit(<<"s", "k", "_", "l", "i", "v", "e", "_">>) \o <<Rep(Alnum, 24, 24)>>>>],
    [name |-> "Stripe Test Key", description |-> "Stripe Test Secret Key", severity |-> "medium", entropy |-> 0,
     flags |-> {},
     alts |-> <<Lit(<<"s", "k", "_", "t", "e", "s", "t", "_">>) \o <<Rep(Alnum, 24, 24)>>>>],
    [name |-> "Slack Bot Token", description |-> "Slack Bot User OAuth Token", severity |-> "high", entropy |-> 0,
     flags |-> {},
     alts |-> <<Lit(<<"x", "o", "x", "b", "-">>) \o <<Rep(Alnum \cup {"-"}, 1, Unbounded)>>>>],
    [name |-> "Slack User Token", description |-> "Slack User OAuth Token", severity |-> "high", entropy |-> 0,
     flags |-> {},
     alts |-> <<Lit(<<"x", "o", "x", "p", "-">>) \o <<Rep(Alnum \cup {"-"}, 1, Unbounded)>>>>],
    [name |-> "Discord Bot Token", description |-> "Discord Bot Token", severity |-> "high", entropy |-> 0,
     flags |-> {},
     alts |-> <<<<Rep({"M", "N"}, 1, 1), Rep(Alnum, 23, 23), Rep({"."}, 1, 1),
                 Rep(WordCh \cup {"-"}, 6, 6), Rep({"."}, 1, 1), Rep(WordCh \cup {"-"}, 27, 27)>>>>],
    [name |-> "JWT Secret", description |-> "JWT Token", severity |-> "medium", entropy |-> 0,
     flags |-> {},
     alts |-> <<Lit(<<"e", "y", "J">>) \o <<Rep(WordCh \cup {"-"}, 1, Unbounded), Rep({"."}, 1, 1),
                 Rep(WordCh \cup {"-"}, 1, Unbounded), Rep({"."}, 1, 1),
                 Rep(WordCh \cup {"-"}, 1, Unbounded)>>>>],
    [name |-> "Private Key", description |-> "Private Key File", severity |-> "critical", entropy |-> 0,
     flags |-> {},
     alts |-> <<Lit(<<"-", "-", "-", "-", "-", "B", "E", "G", "I", "N", " ", "P", "R", "I", "V", "A", "T", "E", " ", "K", "E", "Y", "-", "-", "-", "-", "-">>)>>],
    [name |-> "RSA Private Key", description |-> "RSA Private Key", severity |-> "critical", entropy |-> 0,
     flags |-> {},
     alts |-> <<Lit(<<"-", "-", "-", "-", "-", "B", "E", "G", "I", "N", " ", "R", "S", "A", " ", "P", "R", "I", "V", "A", "T", "E", " ", "K", "E", "Y", "-", "-", "-", "-", "-">>)>>],
    [name |-> "SSH Private Key", description |-> "SSH Private Key", severity |-> "critical", entropy |-> 0,
     flags |-> {},
     alts |-> <<Lit(<<"-", "-", "-", "-", "-", "B", "E", "G", "I", "N", " ", "O", "P", "E", "N", "S", "S", "H", " ", "P", "R", "I", "V", "A", "T", "E", " ", "K", "E", "Y", "-", "-", "-", "-", "-">>)>>],
    [name |-> "Database URL", description |-> "Database Connection String with Credentials", severity |-> "critical", entropy |-> 0,
     flags |-> {},
     alts |-> <<Lit(<<"m", "o", "n", "g", "o", "d", "b">>) \o DatabaseUrlRest, Lit(<<"p", "o", "s", "t", "g", "r", "e", "s", "q", "l">>) \o DatabaseUrlRest,
               Lit(<<"m", "y", "s", "q", "l">>) \o DatabaseUrlRest, Lit(<<"r", "e", "d", "i", "s">>) \o DatabaseUrlRest>>],
    [name |-> "Email Password", description |-> "Email with Password", severity |-> "high", entropy |-> 0,
     flags |-> {},
     alts |-> <<EmailAddress \o <<NotRep({}, 0, Unbounded)>> \o EmailAddress>>]
>>

\* The pattern of the first test of secret-scanner.test.js: /AKIA[0-9A-Z]{16}/
ApiKeyPattern ==
    [name |-> "API Key", description |-> "", severity |-> "high", entropy |-> 0,
     flags |-> {},
     alts |-> <<Lit(<<"A", "K", "I", "A">>) \o <<Rep(Digits \cup Uppers, 16, 16)>>>>]

\* A caller's pattern whose RegExp already carries the g flag: /AKIA[0-9A-Z]{12}/g
GlobalKeyPattern ==
    [name |-> "Key Id", description |-> "", severity |-> "low", entropy |-> 0,
     flags |-> {"g"},
     alts |-> <<Lit(<<"A", "K", "I", "A">>) \o <<Rep(Digits \cup Uppers, 12, 12)>>>>]

(***************************************************************************)
(* The content scanned in the model                                        *)
(***************************************************************************)
\* const key = "AKIA1234567890ABCD12";
KeyLine ==
    <<"c", "o", "n", "s", "t", " ", "k", "e", "y", " ", "=", " ", "\"",
      "A", "K", "I", "A", "1", "2", "3", "4", "5", "6", "7", "8", "9", "0",
      "A", "B", "C", "D", "1", "2", "\"", ";">>

\* aws_secret = "wJalrXUtnFEMI/K7MDENG/bPxRfiCYEXAMPLEKEY"
SecretLine ==
    <<"a", "w", "s", "_", "s", "e", "c", "r", "e", "t", " ", "=", " ",
      "\"", "w", "J", "a", "l", "r", "X", "U", "t", "n", "F", "E", "M",
      "I", "/", "K", "7", "M", "D", "E", "N", "G", "/", "b", "P", "x", "R",
      "f", "i", "C", "Y", "E", "X", "A", "M", "P", "L", "E", "K", "E", "Y",
      "\"">>

TestKey == "AKIA1234567890ABCD12"
ExampleSecret == "wJalrXUtnFEMI/K7MDENG/bPxRfiCYEXAMPLEKEY"

\* /[a-zA-Z0-9+/]{20,}={0,2}/g
potentialSecretPattern ==
    <<<<Rep(Alnum \cup {"+", "/"}, 20, Unbounded), Rep({"="}, 0, 2)>>>>

\* The lines and the regular expressions the scans of the model meet.
KnownLines == {KeyLine, SecretLine}

KnownRegexes ==
    {defaultPatterns[k].alts : k \in 1..Len(defaultPatterns)}
        \cup {ApiKeyPattern.alts, GlobalKeyPattern.alts, potentialSecretPattern}

LongestLine == MaxOf({Len(line) : line \in KnownLines})

\* MatchesFrom on these, worked out once (f @@ <<>> is f as an explicit table).
MatchesTable ==
    [alts \in KnownRegexes, line \in KnownLines, lastIndex \in 0..LongestLine |->
        MatchesFrom(alts, line, lastIndex)] @@ <<>>

\* The matches from lastIndex on as the table has them, worked out on the
\* spot for a line or an expression the table does not hold.
Lookup(table, alts, line, lastIndex) ==
    IF <<alts, line, lastIndex>> \in DOMAIN table
    THEN table[alts, line, lastIndex]
    ELSE MatchesFrom(alts, line, lastIndex)

\* line.matchAll(regex) for a global regex whose lastIndex is lastIndex.
matchAll(alts, line, lastIndex) == Lookup(MatchesTable, alts, line, lastIndex)

(***************************************************************************)
(* SecretScanner: matching, the entropy sweep, deduplication               *)
(***************************************************************************)
\* The RegExp objects whose lastIndex the model tracks: the pattern objects
\* of the registry, by pattern name, and the object built per pattern and
\* line, "new RegExp".
NewObject == "new RegExp"

\* secret-scanner.ts 445 (217 in scanFile):
\* new RegExp(pattern.pattern.source, pattern.pattern.flags + 'g') is a new
\* object with lastIndex 0; the flags "gg" of a pattern that already carries g
\* are a SyntaxError.
NewRegExp_shared(pattern, heap) ==
    [ok |-> TRUE, obj |-> pattern.name, heap |-> heap]

NewRegExp(pattern, heap) ==
    [ok |-> "g" \notin pattern.flags, obj |-> NewObject,
     heap |-> [heap EXCEPT ![NewObject] = 0]]

\* regex.test(line) of a global regex leaves lastIndex at the end of the
\* first match from lastIndex on, at 0 when there is none. `found` are the
\* matches of matchAll, which started from the same lastIndex.
TestLastIndex(found) == IF found = <<>> THEN 0 ELSE found[1].end

\* parts.join('\n')
RECURSIVE JoinLines(_)
JoinLines(parts) ==
    IF parts = <<>> THEN ""
    ELSE IF Len(parts) = 1 THEN Text(parts[1])
    ELSE Text(parts[1]) \o "\n" \o JoinLines(Tail(parts))

\* lines.slice(max(0, lineNum - n), min(length, lineNum + n + 1)).join('\n'),
\* lineNum counted from 1 here.
getContext(lines, lineNum, contextLines) ==
    JoinLines(SubSeq(lines,
        IF lineNum - contextLines > 1 THEN lineNum - contextLines ELSE 1,
        IF lineNum + contextLines < Len(lines) THEN lineNum + contextLines
        ELSE Len(lines)))

\* The pattern as a finding carries it (name, description, severity).
PatternRef(pattern) ==
    [name |-> pattern.name, description |-> pattern.description,
     severity |-> pattern.severity]

\* secret-scanner.ts 471-479 and 295-308: the finding pushed for a match
\* whose match[0] is chars.
Finding(filePath, lines, lineNum, column, pattern, chars) ==
    [file |-> filePath, line |-> lineNum, column |-> column, pattern |-> pattern,
     value |-> Text(chars), entropy |-> calculateEntropy(chars),
     context |-> getContext(lines, lineNum, 2)]

\* secret-scanner.ts 452-482: the findings of the matches of one pattern on
\* one line, the allow-listed and the low-entropy ones skipped.
MatchFindings(pattern, lines, lineNum, found, filePath, allowed) ==
    SelectSeq([k \in 1..Len(found) |->
                  Finding(filePath, lines, lineNum, found[k].index + 1,
                          PatternRef(pattern), Matched(lines[lineNum], found[k]))],
              LAMBDA r :
                  /\ r.value \notin Range(allowed)
                  /\ ~(pattern.entropy # 0 /\ r.entropy < pattern.entropy))

\* secret-scanner.ts 446-482: the matches `found` of line.matchAll(regex) give
\* their findings, and regex.test(line) moves regex.lastIndex. acc is
\* [results, heap].
Collect(pattern, lines, lineNum, filePath, allowed, acc, regex, found) ==
    [results |-> acc.results \o
         MatchFindings(pattern, lines, lineNum, found, filePath, allowed),
     heap |-> [regex.heap EXCEPT ![regex.obj] = TestLastIndex(found)]]

\* secret-scanner.ts 443-485: the try block for one pattern and line; when
\* new RegExp throws, the catch leaves the line without a match.
Matching(pattern, lines, lineNum, filePath, allowed, acc, regex) ==
    IF ~regex.ok THEN acc
    ELSE Collect(pattern, lines, lineNum, filePath, allowed, acc, regex,
                 \* line.matchAll(regex) works on a clone of regex that starts
                 \* at regex.lastIndex
                 matchAll(pattern.alts, lines[lineNum], regex.heap[regex.obj]))

\* secret-scanner.ts 438-485: the body of the inner loop for one pattern and
\* one line.
ScanLine(pattern, lines, lineNum, filePath, allowed, acc) ==
    IF lines[lineNum] = <<>> THEN acc      \* if (!line) continue
    ELSE Matching(pattern, lines, lineNum, filePath, allowed, acc,
                  NewRegExp(pattern, acc.heap))

\* Next applied to `first`, `first` being worked out before Next is.
AndThen(first, Next(_)) == CHOOSE r \in {Next(a) : a \in {first}} : TRUE

\* secret-scanner.ts 436-487: the iterations lo..hi of the two loops, in the
\* order the loops make them: pattern by pattern, and line by line for each
\* pattern, so that iteration n is pattern (n - 1) \div Len(lines) + 1 on
\* line (n - 1) % Len(lines) + 1. The second half of the iterations starts
\* from what the first half leaves.
RECURSIVE ScanIterations(_, _, _, _, _, _, _)
ScanIterations(patterns, lines, filePath, allowed, lo, hi, acc) ==
    IF lo > hi THEN acc
    ELSE IF lo = hi
    THEN ScanLine(patterns[((lo - 1) \div Len(lines)) + 1], lines,
                  ((lo - 1) % Len(lines)) + 1, filePath, allowed, acc)
    ELSE AndThen(ScanIterations(patterns, lines, filePath, allowed,
                                lo, (lo + hi) \div 2, acc),
                 LAMBDA a : ScanIterations(patterns, lines, filePath, allowed,
                                           ((lo + hi) \div 2) + 1, hi, a))

\* ^atoms$ tested against a whole string: the end of the string is marked by
\* a line feed, which no string of a line holds.
FullMatch(atoms, chars) ==
    MatchEnd(atoms \o <<Rep({"\n"}, 1, 1)>>, 1, chars \o <<"\n">>, 1) # 0

\* secret-scanner.ts 333-345
falsePositives == <<
    <<Rep(HexLow, 32, 32)>>,
    <<Rep(HexLow, 40, 40)>>,
    <<Rep(HexLow, 64, 64)>>,
    <<Rep(Alnum \cup {"+", "/"}, 22, 22), Rep({"="}, 0, 2)>>,
    <<Rep(Digits, 10, Unbounded)>>,
    <<Rep(Uppers, 2, Unbounded), Rep(Digits, 2, Unbounded),
      Rep(Uppers \cup Digits, 0, Unbounded)>> >>

\* isLikelyNotSecret with no false-positive shape: every token is kept.
isLikelyNotSecret_never(chars) == FALSE

isLikelyNotSecret(chars) ==
    \E k \in 1..Len(falsePositives) : FullMatch(falsePositives[k], chars)

\* entropy.toFixed(2) of an entropy in thousandths
ToFixed2(milli) ==
    LET hundredths == (milli + 5) \div 10
        frac == hundredths % 100
    IN  ToString(hundredths \div 100) \o "." \o
        (IF frac < 10 THEN "0" ELSE "") \o ToString(frac)

\* The pattern a finding of the sweep carries.
HighEntropyPattern(entropy) ==
    [name |-> "High Entropy String",
     description |-> "High entropy string (" \o ToFixed2(entropy) \o ")",
     severity |-> "medium"]

\* secret-scanner.ts 287-310: the findings of the candidates of one line, of
\* which `found` have entropy enough and are not likely not secrets.
EntropyFindings(lines, lineNum, filePath, found) ==
    [k \in 1..Len(found) |->
        Finding(filePath, lines, lineNum, found[k].index + 1,
                HighEntropyPattern(calculateEntropy(Matched(lines[lineNum], found[k]))),
                Matched(lines[lineNum], found[k]))]

\* secret-scanner.ts 274-314; this.allowedSecrets is not read here. The regex
\* literal is a new object, lastIndex 0, in every call.
RECURSIVE scanForHighEntropy(_, _, _, _)
scanForHighEntropy(lines, lineNum, filePath, minEntropy) ==
    IF lineNum > Len(lines) THEN <<>>
    ELSE (IF lines[lineNum] = <<>> THEN <<>>
          ELSE EntropyFindings(lines, lineNum, filePath,
                   SelectSeq(matchAll(potentialSecretPattern, lines[lineNum], 0),
                       LAMBDA m :
                           /\ calculateEntropy(Matched(lines[lineNum], m)) >= minEntropy
                           /\ ~isLikelyNotSecret(Matched(lines[lineNum], m)))))
         \o scanForHighEntropy(lines, lineNum + 1, filePath, minEntropy)

\* results.push(...entropyResults) and the RegExp objects afterwards
WithSweep(named, entropyResults) ==
    [results |-> named.results \o entropyResults, heap |-> named.heap]

\* scanContent without the test of minEntropy: the sweep always runs.
scanContent_sweepAlways(content, filePath, minEntropy, self) ==
    WithSweep(ScanIterations(defaultPatterns \o self.customPatterns, content,
                             filePath, self.allowedSecrets, 1,
                             Len(defaultPatterns \o self.customPatterns) * Len(content),
                             [results |-> <<>>, heap |-> self.heap]),
              scanForHighEntropy(content, 1, filePath, minEntropy))

\* secret-scanner.ts 426-497. content is content.split('\n'); self is the
\* scanner: [customPatterns, allowedSecrets, heap]. The result is the findings
\* and the heap of RegExp objects afterwards.
scanContent(content, filePath, minEntropy, self) ==
    WithSweep(ScanIterations(defaultPatterns \o self.customPatterns, content,
                             filePath, self.allowedSecrets, 1,
                             Len(defaultPatterns \o self.customPatterns) * Len(content),
                             [results |-> <<>>, heap |-> self.heap]),
              IF minEntropy > 0
              THEN scanForHighEntropy(content, 1, filePath, minEntropy)
              ELSE <<>>)

\* secret-scanner.ts 143-148: what the try block of the inline loop pushes;
\* content.split throws before anything is matched, and the catch logs it.
TryScanContent(fileData, minEntropy, self) ==
    IF fileData.content = None
    THEN [results |-> <<>>, heap |-> self.heap]
    ELSE scanContent(fileData.content, fileData.file, minEntropy, self)

\* scanFile without the sweep for high-entropy tokens.
scanFile_noSweep(file, minEntropy, maxFileSize, self) ==
    IF ~file.readable \/ file.size > maxFileSize
    THEN [results |-> <<>>, heap |-> self.heap]
    ELSE scanContent(file.content, file.file, 0, self)

scanFile_noLimit(file, minEntropy, maxFileSize, self) ==
    IF ~file.readable
    THEN [results |-> <<>>, heap |-> self.heap]
    ELSE scanContent(file.content, file.file, minEntropy, self)

\* secret-scanner.ts 193-272: a file statSync or readFileSync fails on, and a
\* file larger than maxFileSize, give no findings; any other file is scanned
\* by the same two loops and sweep as inline content.
scanFile(file, minEntropy, maxFileSize, self) ==
    IF ~file.readable \/ file.size > maxFileSize
    THEN [results |-> <<>>, heap |-> self.heap]
    ELSE scanContent(file.content, file.file, minEntropy, self)

\* secret-scanner.ts 138, 157: Date.now() - startTime > timeout
TimedOut_never(sinceStart, timeout) == FALSE

TimedOut(sinceStart, timeout) == sinceStart > timeout

\* `${result.file}:${result.line}:${result.column}:${result.value}`
\* A key that tells the pattern labels apart.
DedupKey_withLabel(result) ==
    result.file \o ":" \o ToString(result.line) \o ":" \o ToString(result.column)
        \o ":" \o result.value \o ":" \o result.pattern.name

DedupKey(result) ==
    result.file \o ":" \o ToString(result.line) \o ":" \o ToString(result.column)
        \o ":" \o result.value

filterResults_none(results) == results

\* The indices in `keep`, in order, select the findings kept.
Kept(results, keep) ==
    [k \in 1..Cardinality(keep) |->
        results[CHOOSE i \in keep : Cardinality({j \in keep : j <= i}) = k]]

\* A filter that keeps the last finding of every key.
filterResults_keepLast(results) ==
    Kept(results, {i \in 1..Len(results) :
                      \A j \in (i + 1)..Len(results) :
                          DedupKey(results[j]) # DedupKey(results[i])})

\* secret-scanner.ts 353-364: the first finding of every key is kept.
filterResults(results) ==
    Kept(results, {i \in 1..Len(results) :
                      \A j \in 1..(i - 1) : DedupKey(results[j]) # DedupKey(results[i])})

(***************************************************************************)
(* SecretScanner.generateReport. The report is the string the code builds; *)
(* its characters outside ASCII are written by their code points.          *)
(***************************************************************************)
CheckMark     == "U+2705"
RotatingLight == "U+1F6A8"
WarningSign   == "U+26A0U+FE0F"
Magnifier     == "U+1F50D"
InfoSign      == "U+2139U+FE0F"
Bullet        == "U+2022"

\* severity.toUpperCase()
ToUpperCase(severity) ==
    CASE severity = "critical" -> "CRITICAL"
      [] severity = "high"     -> "HIGH"
      [] severity = "medium"   -> "MEDIUM"
      [] severity = "low"      -> "LOW"

\* secret-scanner.ts 411-413
SeverityIcon(severity) ==
    IF severity = "critical" THEN RotatingLight
    ELSE IF severity = "high" THEN WarningSign
    ELSE IF severity = "medium" THEN Magnifier
    ELSE InfoSign

ReportOrder_ascending == <<"low", "medium", "high", "critical">>

\* ['critical', 'high', 'medium', 'low'].forEach
ReportOrder == <<"critical", "high", "medium", "low">>

\* secret-scanner.ts 399-405: results.reduce gives, for every severity some
\* finding has, the findings of that severity in the order of `results`.
Grouped(results) ==
    [severity \in {results[i].pattern.severity : i \in 1..Len(results)} |->
        SelectSeq(results, LAMBDA r : r.pattern.severity = severity)]

\* The strings of a sequence, one after the other.
RECURSIVE Concat(_)
Concat(parts) == IF parts = <<>> THEN "" ELSE parts[1] \o Concat(Tail(parts))

\* secret-scanner.ts 417
EntryText(result) ==
    "  " \o Bullet \o " " \o result.file \o ":" \o ToString(result.line) \o " - "
        \o result.pattern.name \o "\n"

\* secret-scanner.ts 409-420: what one severity adds to the report.
TierText(grouped, severity) ==
    IF severity \in DOMAIN grouped /\ Len(grouped[severity]) > 0
    THEN SeverityIcon(severity) \o " " \o ToUpperCase(severity) \o " ("
             \o ToString(Len(grouped[severity])) \o "):\n"
             \o Concat([k \in 1..Len(grouped[severity]) |->
                           EntryText(grouped[severity][k])])
             \o "\n"
    ELSE ""

\* secret-scanner.ts 380-424
generateReport(results) ==
    IF Len(results) = 0
    THEN CheckMark \o " No secrets found in scanned files."
    ELSE RotatingLight \o " Found " \o ToString(Len(results))
             \o " potential secrets:\n\n"
             \o Concat([k \in 1..Len(ReportOrder) |->
                           TierText(Grouped(results), ReportOrder[k])])

\* getPatterns(), with the caller's patterns ahead of the built-in ones.
getPatterns_customFirst(custom) == custom \o defaultPatterns

\* getPatterns(): [...this.defaultPatterns, ...this.customPatterns]
getPatterns(custom) == defaultPatterns \o custom

\* The RegExp objects of the model: the pattern objects by pattern name and
\* the object built per pattern and line.
RegExpObjects ==
    {defaultPatterns[k].name : k \in 1..Len(defaultPatterns)}
        \cup {ApiKeyPattern.name, GlobalKeyPattern.name, NewObject}

NoOptions ==
    [files |-> <<>>, patterns |-> <<>>, entropy |-> 0, timeout |-> 0, maxFileSize |-> 0]
NoRegistry == [customPatterns |-> <<>>, allowedSecrets |-> <<>>]

\* A scanner with an empty registry on which nothing is called.
ScanIdle ==
    /\ customPatterns = <<>>
    /\ allowedSecrets = <<>>
    /\ regexIndex = [o \in RegExpObjects |-> 0]
    /\ scanPc = "idle"
    /\ scanOptions = NoOptions
    /\ units = <<>>
    /\ nextUnit = 1
    /\ scanResults = <<>>
    /\ elapsed = 0
    /\ started = <<>>
    /\ atStart = NoRegistry
    /\ scans = 0
    /\ lastScan = None
    /\ prevScan = None

(***************************************************************************)
(* SpecDiff: computeDiff applied to drawn baseline/current lists.          *)
(***************************************************************************)
MaxBaseline == 1   \* findings in a drawn baseline
MaxCore     == 2   \* freely ordered findings in a drawn current list
MaxPad      == 6   \* further findings of one severity appended to current

\* Findings on two identity keys, with the value, the entropy and the
\* severity varying on the first.
DiffFindings ==
    { Secret("a.js", 1, "P", "low", "v1", 3000),
      Secret("a.js", 1, "P", "low", "v2", 4000),
      Secret("a.js", 1, "P", "high", "v1", 3000),
      Secret("a.js", 1, "P", "critical", "v1", 3000),
      Secret("b.js", 2, "Q", "medium", "v1", 3000) }

\* n findings of one severity on n further lines of c.js.
Pad(severity, n) == [i \in 1..n |-> Secret("c.js", i, "R", severity, "v1", 3000)]

Pads == {Pad("medium", n) : n \in 0..MaxPad} \cup {Pad("high", n) : n \in 0..MaxPad}

\* Critical findings that may be added to a current list.
CriticalFindings ==
    { Secret("a.js", 1, "P", "critical", "v2", 4000),
      Secret("d.js", 1, "S", "critical", "v1", 3000) }

InsertAt(s, i, x) == SubSeq(s, 1, i - 1) \o <<x>> \o SubSeq(s, i, Len(s))

\* No report asked for.
ReportIdle ==
    /\ rResults = <<>>
    /\ rReport = None

AuditIdle ==
    /\ auditFile = AbsentFile
    /\ history = [a \in Auditors |-> <<>>]
    /\ constructed = [a \in Auditors |-> FALSE]
    /\ clock = 0
    /\ calls = 0
    /\ lastCall = None
    /\ appended = <<>>
    /\ lastQuery = None

DiffInit ==
    /\ dBaseline \in SeqsUpTo(DiffFindings, MaxBaseline)
    /\ \E core \in SeqsUpTo(DiffFindings, MaxCore), pad \in Pads :
           dCurrent = core \o pad
    /\ dResult = None
    /\ dPrevRisk = None
    /\ dPc = "input"
    /\ AuditIdle
    /\ ScanIdle
    /\ ReportIdle

\* computeDiff(baseline, current)
ComputeDiff ==
    /\ dPc = "input"
    /\ dResult' = Some(computeDiff(dBaseline, dCurrent))
    /\ dPc' = "diffed"
    /\ UNCHANGED <<dBaseline, dCurrent, dPrevRisk, auditVars, scanVars, reportVars>>

\* One more critical finding, absent from the baseline, enters current (at the
\* front or at the end) and the diff is computed again.
AddCritical ==
    /\ dPc = "diffed"
    /\ \E x \in CriticalFindings, i \in {1, Len(dCurrent) + 1} :
          /\ \A j \in 1..Len(dBaseline) : getSecretKey(dBaseline[j]) # getSecretKey(x)
          /\ dCurrent' = InsertAt(dCurrent, i, x)
          /\ dResult' = Some(computeDiff(dBaseline, dCurrent'))
    /\ dPrevRisk' = Some(dResult[1].summary.riskLevel)
    /\ dPc' = "grown"
    /\ UNCHANGED <<dBaseline, auditVars, scanVars, reportVars>>

DiffNext == ComputeDiff \/ AddCritical

SpecDiff == DiffInit /\ [][DiffNext]_vars

(***************************************************************************)
(* SpecSelfDiff: computeDiff applied to a drawn list and itself.           *)
(***************************************************************************)
MaxSelf == 3   \* findings in a drawn list

SelfDiffInit ==
    /\ dBaseline \in SeqsUpTo(DiffFindings, MaxSelf)
    /\ dCurrent = dBaseline
    /\ dResult = None
    /\ dPrevRisk = None
    /\ dPc = "input"
    /\ AuditIdle
    /\ ScanIdle
    /\ ReportIdle

SpecSelfDiff == SelfDiffInit /\ [][ComputeDiff]_vars

(***************************************************************************)
(* SpecAudit: an auditor instance over the persisted audit log.            *)
(***************************************************************************)
MaxCalls == 2   \* auditDiff calls in one behaviour
MaxTick  == 1   \* milliseconds that may pass before a call reads the clock

ListOne == <<Secret("a.js", 1, "P", "high", "v1", 3000)>>
ListTwo == <<Secret("a.js", 1, "P", "high", "v2", 4000),
             Secret("b.js", 2, "Q", "critical", "v1", 3000)>>

CurrentChoices   == {ListOne, ListTwo}
CompareToChoices == {None, Some(ListOne)}
VersionChoices   == {None, Some("v1"), Some("v2")}

\* `since` relative to the time of the call: absent, unparsable, the present
\* millisecond, a time in the future.
SinceChoices(now) == {None, Some(InvalidDate), Some(DateOf(now)), Some(DateOf(now + 1))}

\* The log that n <= HistoryCap earlier auditDiff calls without compareTo and
\* since leave behind: one call per millisecond, under three labels in turn.
\* SelectBaseline reads only version, timestamp and secrets of the records, so
\* the records before the i-th are given to it without their diffs.
SeedVersion(i) == IF i % 3 = 1 THEN Some("v1") ELSE IF i % 3 = 2 THEN None ELSE Some("v2")

SeedSecrets(i) == IF i % 2 = 1 THEN ListOne ELSE ListTwo

SeedBefore(i) ==
    [j \in 1..(i - 1) |-> [version |-> VersionLabel(SeedVersion(j)), timestamp |-> j,
                           secrets |-> SeedSecrets(j)]]

ProducedHistory(n) ==
    [i \in 1..n |->
        [version |-> VersionLabel(SeedVersion(i)), timestamp |-> i,
         secrets |-> SeedSecrets(i),
         diff |-> computeDiff(SelectBaseline(SeedBefore(i), None, SeedVersion(i), None),
                              SeedSecrets(i))]]

SeedLengths == {2, HistoryCap - 1, HistoryCap}

DiffIdle ==
    /\ dBaseline = <<>>
    /\ dCurrent = <<>>
    /\ dResult = None
    /\ dPrevRisk = None
    /\ dPc = "idle"

AuditInit ==
    /\ \/ auditFile \in {AbsentFile, CorruptFile} /\ clock = 0
       \/ \E n \in SeedLengths :
              /\ auditFile = JSONStringify(ProducedHistory(n))
              /\ clock = n
    /\ history = [a \in Auditors |-> <<>>]
    /\ constructed = [a \in Auditors |-> FALSE]
    /\ calls = 0
    /\ lastCall = None
    /\ appended = <<>>
    /\ lastQuery = None
    /\ DiffIdle
    /\ ScanIdle
    /\ ReportIdle

\* new SecretDiffAuditor()
Construct(a) ==
    /\ ~constructed[a]
    /\ constructed' = [constructed EXCEPT ![a] = TRUE]
    /\ history' = [history EXCEPT ![a] = loadAuditHistory(auditFile)]
    /\ UNCHANGED <<auditFile, clock, calls, lastCall, appended, lastQuery,
                   diffVars, scanVars, reportVars>>

\* auditor.auditDiff({since, version, currentSecrets, compareTo}); the
\* function holds no await and runs to completion. writeOk: whether
\* writeFileSync succeeds (its error is caught and logged).
AuditDiff(a, since, version, currentSecrets, compareTo, now, writeOk) ==
    /\ constructed[a]
    /\ calls < MaxCalls
    /\ LET baselineSecrets == SelectBaseline(history[a], since, version, compareTo)
           diff == computeDiff(baselineSecrets, currentSecrets)
           audit == [version |-> VersionLabel(version), timestamp |-> now,
                     secrets |-> currentSecrets, diff |-> diff]
           saved == saveAudit(history[a], audit)
       IN  /\ history' = [history EXCEPT ![a] = saved]
           /\ auditFile' = IF writeOk THEN JSONStringify(saved) ELSE auditFile
           /\ lastCall' = Some([auditor |-> a, since |-> since, version |-> version,
                                currentSecrets |-> currentSecrets,
                                compareTo |-> compareTo, time |-> now,
                                before |-> history[a],
                                baseline |-> baselineSecrets, result |-> diff])
           /\ appended' = Append(appended, audit)
    /\ lastQuery' = None
    /\ clock' = now
    /\ calls' = calls + 1
    /\ UNCHANGED <<constructed, diffVars, scanVars, reportVars>>

AuditStep(a, writeOutcomes) ==
    \E now \in clock..(clock + MaxTick), writeOk \in writeOutcomes,
       currentSecrets \in CurrentChoices, compareTo \in CompareToChoices,
       version \in VersionChoices :
        \E since \in SinceChoices(now) :
            AuditDiff(a, since, version, currentSecrets, compareTo, now, writeOk)

\* One auditor whose writes succeed.
AuditNext == Construct("A1") \/ AuditStep("A1", {TRUE})

SpecAudit == AuditInit /\ [][AuditNext]_vars

(***************************************************************************)
(* SpecLog: two auditor instances over one persisted audit log, each       *)
(* constructed at any time, appending and querying in any order.           *)
(***************************************************************************)
DefaultLimit == 10   \* limit: number = 10

QueryLimits == {0, 2, DefaultLimit}

\* auditor.getAuditHistory(limit)
GetAuditHistory(a, limit) ==
    /\ constructed[a]
    /\ lastQuery' = Some([auditor |-> a, limit |-> limit, before |-> history[a],
                          result |-> getAuditHistory(history[a], limit)])
    /\ UNCHANGED <<auditFile, history, constructed, clock, calls, lastCall, appended,
                   diffVars, scanVars, reportVars>>

\* auditDiff({version, currentSecrets}) against the last record or a label
LogStep(a) ==
    \E now \in clock..(clock + MaxTick), currentSecrets \in CurrentChoices,
       version \in {None, Some("v1")} :
        AuditDiff(a, None, version, currentSecrets, None, now, TRUE)

LogNext ==
    \E a \in Auditors :
        \/ Construct(a)
        \/ LogStep(a)
        \/ \E limit \in QueryLimits : GetAuditHistory(a, limit)

SpecLog == AuditInit /\ [][LogNext]_vars

(***************************************************************************)
(* SpecScan: a scanner instance, its registry and its scan calls.          *)
(***************************************************************************)
MaxScans   == 2       \* scan calls
MaxCustom  == 1       \* length of customPatterns
MaxAllowed == 1       \* length of allowedSecrets
MaxElapsed == 2       \* the elapsed time stops growing here

DefaultEntropy     == 3500      \* entropy = 3.5, in thousandths
DefaultTimeout     == 30000     \* timeout = 30000
DefaultMaxFileSize == 1048576   \* maxFileSize = 1024 * 1024

\* Entries of options.files, content as content.split('\n').
KeyFile == [file |-> "s.js", content |-> <<KeyLine>>]
SecretFile == [file |-> "t.js", content |-> <<SecretLine, <<>>, KeyLine>>]

\* The files glob finds: a small source file, a file over the size limit, a
\* file that is gone when it is read, and a second source file.
Disk == <<
    [file |-> "/p/a.js", readable |-> TRUE, size |-> 35, content |-> <<KeyLine>>],
    [file |-> "/p/big.bin", readable |-> TRUE, size |-> 2 * DefaultMaxFileSize,
     content |-> <<SecretLine>>],
    [file |-> "/p/gone.js", readable |-> FALSE, size |-> 0, content |-> <<>>],
    [file |-> "/p/t.js", readable |-> TRUE, size |-> 92,
     content |-> <<SecretLine, <<>>, KeyLine>>] >>

\* An entry whose content is not a string (undefined): content.split throws.
\* The parts of a string split at '\n' are never none, so None is free to
\* stand for it.
BrokenEntry == [file |-> "u.js", content |-> None]

\* The file of the disk at a path.
DiskFile(path) == CHOOSE f \in Range(Disk) : f.file = path

\* Glob patterns of a request: the default of `patterns`, and one file.
AllFiles == "**/*"
OneFile  == "a.js"

\* glob(pattern, {ignore: exclude, nodir: true, absolute: true}) in /p with
\* the default exclude list, which holds none of the disk's files.
Glob(pattern) ==
    IF pattern = AllFiles THEN [k \in 1..Len(Disk) |-> Disk[k].file]
    ELSE IF pattern = OneFile THEN <<"/p/a.js">>
    ELSE <<>>

\* [...new Set(files)]: the first occurrence of every path, in order.
Unique(paths) ==
    Kept(paths, {i \in 1..Len(paths) : \A j \in 1..(i - 1) : paths[j] # paths[i]})

RECURSIVE GlobAll(_)
GlobAll(patterns) ==
    IF patterns = <<>> THEN <<>> ELSE Glob(patterns[1]) \o GlobAll(Tail(patterns))

\* secret-scanner.ts 174-191; patterns is [...patterns, ...include].
getFiles(patterns) == Unique(GlobAll(patterns))

\* The readable files of the disk within the default size limit, as entries
\* of options.files: the path glob finds and the content readFileSync gives.
InlineOf(f) == [file |-> f.file, content |-> f.content]

DiskImage ==
    LET within == SelectSeq(Disk, LAMBDA f : f.readable /\ f.size <= DefaultMaxFileSize)
    IN  [k \in 1..Len(within) |-> InlineOf(within[k])]

FilesChoices ==
    {<<>>, <<SecretFile, KeyFile>>, <<KeyFile>>, <<SecretFile, BrokenEntry, KeyFile>>,
     DiskImage}

\* The requests of the model. The glob patterns vary for the file system
\* request and for one inline request.
OptionChoices ==
    {o \in [files : FilesChoices, patterns : {<<AllFiles>>, <<OneFile>>},
            entropy : {0, DefaultEntropy}, timeout : {1, DefaultTimeout},
            maxFileSize : {DefaultMaxFileSize}] :
        o.patterns # <<AllFiles>> => o.files \in {<<>>, <<KeyFile>>}}

\* new SecretScanner() and the scanner of secret-scanner.test.js.
ConstructorChoices ==
    { [patterns |-> <<>>, allowedSecrets |-> <<>>],
      [patterns |-> <<ApiKeyPattern>>, allowedSecrets |-> <<TestKey>>] }

\* What a step of a scan may take, in ms.
Durations == {0, 1}

After(sinceStart, d) ==
    IF sinceStart + d > MaxElapsed THEN MaxElapsed ELSE sinceStart + d

Registry == [customPatterns |-> customPatterns, allowedSecrets |-> allowedSecrets]

ScanInit ==
    /\ \E c \in ConstructorChoices :
          /\ customPatterns = c.patterns
          /\ allowedSecrets = c.allowedSecrets
    /\ regexIndex = [o \in RegExpObjects |-> 0]
    /\ scanPc = "idle"
    /\ scanOptions = NoOptions
    /\ units = <<>>
    /\ nextUnit = 1
    /\ scanResults = <<>>
    /\ elapsed = 0
    /\ started = <<>>
    /\ atStart = NoRegistry
    /\ scans = 0
    /\ lastScan = None
    /\ prevScan = None
    /\ DiffIdle
    /\ AuditIdle
    /\ ReportIdle

\* if (true): the file paths are resolved and read whatever files holds.
ScansDisk_always(files) == TRUE

\* if (files.length === 0)
ScansDisk(files) == Len(files) = 0

\* scan(options) up to its first loop: inline entries are looped over at
\* once; without any, the file paths are awaited first.
Scan(options) ==
    /\ scanPc = "idle"
    /\ scans < MaxScans
    /\ scans' = scans + 1
    /\ scanOptions' = options
    /\ scanResults' = <<>>
    /\ started' = <<>>
    /\ nextUnit' = 1
    /\ atStart' = Registry
    /\ IF ~ScansDisk(options.files)
       THEN /\ scanPc' = "inline"
            /\ units' = [k \in 1..Len(options.files) |-> options.files[k].file]
            /\ elapsed' = 0
       ELSE /\ scanPc' = "fs"
            /\ units' = getFiles(options.patterns)
            /\ \E d \in Durations : elapsed' = After(0, d)
    /\ UNCHANGED <<customPatterns, allowedSecrets, regexIndex, lastScan, prevScan,
                   diffVars, auditVars, reportVars>>

\* results.push(...fileResults), with the RegExp objects as the unit left
\* them.
Push(fileResults) ==
    /\ scanResults' = scanResults \o fileResults.results
    /\ regexIndex' = fileResults.heap

\* One iteration of either loop whose timeout check passes: the unit is
\* scanned and its findings are pushed.
ScanUnit ==
    /\ scanPc \in {"inline", "fs"}
    /\ nextUnit <= Len(units)
    /\ ~TimedOut(elapsed, scanOptions.timeout)
    /\ Push(IF scanPc = "inline"
            THEN TryScanContent(scanOptions.files[nextUnit], scanOptions.entropy,
                                [customPatterns |-> customPatterns,
                                 allowedSecrets |-> allowedSecrets,
                                 heap |-> regexIndex])
            ELSE scanFile(DiskFile(units[nextUnit]), scanOptions.entropy,
                          scanOptions.maxFileSize,
                          [customPatterns |-> customPatterns,
                           allowedSecrets |-> allowedSecrets, heap |-> regexIndex]))
    /\ started' = Append(started, nextUnit)
    /\ nextUnit' = nextUnit + 1
    /\ \E d \in Durations : elapsed' = After(elapsed, d)
    /\ UNCHANGED <<customPatterns, allowedSecrets, scanPc, scanOptions, units,
                   atStart, scans, lastScan, prevScan, diffVars, auditVars, reportVars>>

\* return this.filterResults(results)
Return(expired) ==
    /\ lastScan' = Some([options |-> scanOptions, atStart |-> atStart,
                         atEnd |-> Registry, expired |-> expired,
                         units |-> Len(units), started |-> Len(started),
                         found |-> Len(scanResults), collected |-> scanResults,
                         returned |-> filterResults(scanResults)])
    /\ prevScan' = lastScan
    /\ scanPc' = "idle"
    /\ scanOptions' = NoOptions
    /\ units' = <<>>
    /\ nextUnit' = 1
    /\ scanResults' = <<>>
    /\ elapsed' = 0
    /\ started' = <<>>
    /\ atStart' = NoRegistry
    /\ UNCHANGED <<customPatterns, allowedSecrets, regexIndex, scans,
                   diffVars, auditVars, reportVars>>

\* The timeout check fails: break, and the scan returns.
ScanBreak ==
    /\ scanPc \in {"inline", "fs"}
    /\ nextUnit <= Len(units)
    /\ TimedOut(elapsed, scanOptions.timeout)
    /\ Return(TRUE)

\* The loop has gone through every unit: the scan returns.
ScanReturn ==
    /\ scanPc \in {"inline", "fs"}
    /\ nextUnit > Len(units)
    /\ Return(FALSE)

\* addPattern(pattern), called between scans: every caller of scan in the
\* repository awaits it.
AddPatternUpTo(pattern, most) ==
    /\ scanPc = "idle"
    /\ Len(customPatterns) < most
    /\ customPatterns' = Append(customPatterns, pattern)
    /\ UNCHANGED <<allowedSecrets, regexIndex, scanPc, scanOptions, units, nextUnit,
                   scanResults, elapsed, started, atStart, scans, lastScan,
                   prevScan, diffVars, auditVars, reportVars>>

AddPattern(pattern) == AddPatternUpTo(pattern, MaxCustom)

\* addAllowedSecret(secret), called between scans
AddAllowedSecretUpTo(secret, most) ==
    /\ scanPc = "idle"
    /\ Len(allowedSecrets) < most
    /\ allowedSecrets' = Append(allowedSecrets, secret)
    /\ UNCHANGED <<customPatterns, regexIndex, scanPc, scanOptions, units, nextUnit,
                   scanResults, elapsed, started, atStart, scans, lastScan,
                   prevScan, diffVars, auditVars, reportVars>>

AddAllowedSecret(secret) == AddAllowedSecretUpTo(secret, MaxAllowed)

ScanNext ==
    \/ \E options \in OptionChoices : Scan(options)
    \/ ScanUnit
    \/ ScanBreak
    \/ ScanReturn
    \/ AddPattern(GlobalKeyPattern)
    \/ AddAllowedSecret(ExampleSecret)

SpecScan == ScanInit /\ [][ScanNext]_vars

(***************************************************************************)
(* SpecCustomScan: scans by the scanner of the test "detects secrets in    *)
(* files", built with one custom pattern and no allowed value.             *)
(***************************************************************************)
CustomScanInit ==
    /\ customPatterns = <<ApiKeyPattern>>
    /\ allowedSecrets = <<>>
    /\ regexIndex = [o \in RegExpObjects |-> 0]
    /\ scanPc = "idle"
    /\ scanOptions = NoOptions
    /\ units = <<>>
    /\ nextUnit = 1
    /\ scanResults = <<>>
    /\ elapsed = 0
    /\ started = <<>>
    /\ atStart = NoRegistry
    /\ scans = 0
    /\ lastScan = None
    /\ prevScan = None
    /\ DiffIdle
    /\ AuditIdle
    /\ ReportIdle

CustomScanNext ==
    \/ \E options \in OptionChoices : Scan(options)
    \/ ScanUnit
    \/ ScanBreak
    \/ ScanReturn

SpecCustomScan == CustomScanInit /\ [][CustomScanNext]_vars

(***************************************************************************)
(* SpecThreshold: scans of the same content, inline and on disk, under     *)
(* entropy thresholds below zero, zero and above zero.                     *)
(***************************************************************************)
\* options.entropy in thousandths: -1, 0, 0.001 and the default 3.5
Thresholds == {0 - 1000, 0, 1, DefaultEntropy}

ThresholdChoices ==
    [files : {<<>>, <<SecretFile, KeyFile>>}, patterns : {<<AllFiles>>},
     entropy : Thresholds, timeout : {DefaultTimeout},
     maxFileSize : {DefaultMaxFileSize}]

ThresholdNext ==
    \/ \E options \in ThresholdChoices : Scan(options)
    \/ ScanUnit
    \/ ScanReturn
    \/ AddAllowedSecret(ExampleSecret)

SpecThreshold == ScanInit /\ [][ThresholdNext]_vars

(***************************************************************************)
(* SpecRegistry: addPattern and addAllowedSecret called on a scanner that  *)
(* is not scanning, getPatterns read in every state.                       *)
(***************************************************************************)
MaxRegistry == 3   \* length of customPatterns and of allowedSecrets

\* The arguments of the calls.
RegistryPatterns == {GlobalKeyPattern, ApiKeyPattern}
RegistrySecrets == {ExampleSecret, TestKey}

RegistryNext ==
    \/ \E pattern \in RegistryPatterns : AddPatternUpTo(pattern, MaxRegistry)
    \/ \E secret \in RegistrySecrets : AddAllowedSecretUpTo(secret, MaxRegistry)

SpecRegistry == ScanInit /\ [][RegistryNext]_vars

(***************************************************************************)
(* SpecReport: generateReport applied to drawn finding lists.              *)
(***************************************************************************)
MaxReport == 3   \* findings in a drawn list

Reported(file, line, name, description, severity, value) ==
    [file |-> file, line |-> line, column |-> 1,
     pattern |-> [name |-> name, description |-> description, severity |-> severity],
     value |-> value, entropy |-> 4000, context |-> ""]

\* Findings of the four severities, two of them critical.
ReportFindings ==
    { Reported("a.js", 1, "AWS Access Key", "AWS Access Key ID", "critical", "v1"),
      Reported("b.js", 7, "Private Key", "Private Key File", "critical", "v2"),
      Reported("a.js", 2, "GitHub Token", "GitHub Personal Access Token", "high", "v3"),
      Reported("c.js", 3, "High Entropy String", "High entropy string (4.00)",
               "medium", "v4"),
      Reported("a.js", 9, "Key Id", "", "low", "v5") }

ReportInit ==
    /\ rResults \in SeqsUpTo(ReportFindings, MaxReport)
    /\ rReport = None
    /\ DiffIdle
    /\ AuditIdle
    /\ ScanIdle

\* scanner.generateReport(results)
GenerateReport ==
    /\ rReport = None
    /\ rReport' = Some(generateReport(rResults))
    /\ UNCHANGED <<rResults, diffVars, auditVars, scanVars>>

ReportNext == GenerateReport

SpecReport == ReportInit /\ [][ReportNext]_vars

(***************************************************************************)
(* Properties of computeDiff and calculateRiskLevel (SpecDiff)             *)
(***************************************************************************)
Diffed == dPc \in {"diffed", "grown"}

SeverityOrder == <<"low", "medium", "high", "critical">>

Rank(severity) == CHOOSE i \in 1..4 : SeverityOrder[i] = severity

\* C1: every baseline finding b and current finding c with the same
\* (file, line, pattern name) and different values are reported as the
\* modification (old = b, new = c), and neither is in added or removed.
C1_SharedKeyIsModified ==
    Diffed =>
        \A i \in 1..Len(dBaseline), j \in 1..Len(dCurrent) :
            LET b == dBaseline[i]
                c == dCurrent[j]
            IN  (/\ b.file = c.file
                 /\ b.line = c.line
                 /\ b.pattern.name = c.pattern.name
                 /\ b.value # c.value)
                => /\ [old |-> b, newSecret |-> c] \in Range(dResult[1].modified)
                   /\ {b, c} \cap Range(dResult[1].added) = {}
                   /\ {b, c} \cap Range(dResult[1].removed) = {}

\* The additions and the severity-raising modifications of a diff that carry
\* the given (new) severity, counted.
RiskCount(diff, severity) ==
    Cardinality({i \in 1..Len(diff.added) : diff.added[i].pattern.severity = severity})
    + Cardinality({i \in 1..Len(diff.modified) :
          /\ diff.modified[i].newSecret.pattern.severity = severity
          /\ Rank(diff.modified[i].newSecret.pattern.severity)
                 > Rank(diff.modified[i].old.pattern.severity)})

\* C4: riskLevel is critical if the critical count is positive, else high if
\* the high count exceeds 2, else medium if the high count is positive or the
\* medium count exceeds 5, else low.
C4_RiskTable ==
    Diffed =>
        LET diff == dResult[1]
            critical == RiskCount(diff, "critical")
            high == RiskCount(diff, "high")
            medium == RiskCount(diff, "medium")
        IN  diff.summary.riskLevel =
                CASE critical > 0 -> "critical"
                  [] critical = 0 /\ high > 2 -> "high"
                  [] critical = 0 /\ high <= 2 /\ (high > 0 \/ medium > 5) -> "medium"
                  [] OTHER -> "low"

\* Scenario D: an empty baseline and two critical current findings.
C4_TwoCriticalWitness ==
    /\ dPc = "diffed"
    /\ dBaseline = <<>>
    /\ Len(dCurrent) = 2
    /\ \A i \in 1..2 : dCurrent[i].pattern.severity = "critical"
    /\ dResult[1].summary.riskLevel = "critical"

\* C5: one more critical finding in current, absent from the baseline, never
\* lowers riskLevel.
C5_CriticalAdditionMonotone ==
    dPc = "grown" =>
        Rank(dResult[1].summary.riskLevel) >= Rank(dPrevRisk[1])

\* A diff of risk high becomes critical by the added finding.
C5_RaisedWitness ==
    /\ dPc = "grown"
    /\ dPrevRisk = Some("high")
    /\ dResult[1].summary.riskLevel = "critical"
    /\ dResult[1].summary.totalAdded >= 4

\* C12: a diff with no added finding and no modification whose severity
\* increased has riskLevel low, whatever was removed or modified without a
\* severity increase; one baseline finding against an empty current gives
\* removed of length 1, added of length 0 and riskLevel low.
C12_RemovalsNeverRaiseRisk ==
    Diffed =>
        LET diff == dResult[1]
        IN  /\ (/\ diff.added = <<>>
                /\ \A i \in 1..Len(diff.modified) :
                       Rank(diff.modified[i].newSecret.pattern.severity)
                           <= Rank(diff.modified[i].old.pattern.severity))
               => diff.summary.riskLevel = "low"
            /\ (Len(dBaseline) = 1 /\ dCurrent = <<>>)
               => /\ Len(diff.removed) = 1
                  /\ Len(diff.added) = 0
                  /\ diff.summary.riskLevel = "low"

\* Scenario C with a critical finding: it is removed and the risk is low.
C12_CriticalRemovedWitness ==
    /\ dPc = "diffed"
    /\ Len(dBaseline) = 1
    /\ dBaseline[1].pattern.severity = "critical"
    /\ dCurrent = <<>>
    /\ dResult[1].removed = dBaseline
    /\ dResult[1].summary.riskLevel = "low"

\* How many of the three lists hold a finding.
Places(x, first, second, third) ==
    (IF x \in Range(first) THEN 1 ELSE 0) + (IF x \in Range(second) THEN 1 ELSE 0)
        + (IF x \in Range(third) THEN 1 ELSE 0)

\* C19: every current finding is in exactly one of added, modified (as the
\* new member) and unchanged, every baseline finding is accounted for in
\* exactly one of removed, modified (as the old member) and unchanged (by the
\* finding of its key), and totalAdded + totalModified + totalUnchanged is the
\* number of current findings, totalRemoved + totalModified + totalUnchanged
\* the number of baseline findings; two findings may share the identity key.
C19_DiffIsPartition ==
    Diffed =>
        LET diff == dResult[1]
            news == SeqMap(LAMBDA m : m.newSecret, diff.modified)
            olds == SeqMap(LAMBDA m : m.old, diff.modified)
            same == SelectSeq(dBaseline, LAMBDA b :
                        \E k \in 1..Len(diff.unchanged) :
                            /\ getSecretKey(diff.unchanged[k]) = getSecretKey(b)
                            /\ ~hasSecretChanged(b, diff.unchanged[k]))
        IN  /\ \A j \in 1..Len(dCurrent) :
                   Places(dCurrent[j], diff.added, news, diff.unchanged) = 1
            /\ \A i \in 1..Len(dBaseline) :
                   Places(dBaseline[i], diff.removed, olds, same) = 1
            /\ diff.summary.totalAdded + diff.summary.totalModified
                   + diff.summary.totalUnchanged = Len(dCurrent)
            /\ diff.summary.totalRemoved + diff.summary.totalModified
                   + diff.summary.totalUnchanged = Len(dBaseline)

(***************************************************************************)
(* Properties of auditDiff (SpecAudit)                                     *)
(***************************************************************************)
\* The findings the claimed selection rule allows as baseline of a call.
ClaimedBaselines(c) ==
    LET atOrAfter == {i \in 1..Len(c.before) :
                          c.since[1].valid /\ c.before[i].timestamp >= c.since[1].ms}
        labelled == {i \in 1..Len(c.before) : c.before[i].version = c.version[1]}
    IN  IF c.compareTo # None THEN {c.compareTo[1]}
        ELSE IF c.since # None
             THEN IF atOrAfter = {} THEN {<<>>} ELSE {c.before[MaxOf(atOrAfter)].secrets}
        ELSE IF c.version # None
             THEN IF labelled = {} THEN {<<>>} ELSE {c.before[i].secrets : i \in labelled}
        ELSE IF c.before = <<>> THEN {<<>>} ELSE {c.before[Len(c.before)].secrets}

NoBaselineResolves(c) ==
    /\ c.compareTo = None
    /\ IF c.since # None
       THEN \A i \in 1..Len(c.before) :
                ~(c.since[1].valid /\ c.before[i].timestamp >= c.since[1].ms)
       ELSE IF c.version # None
            THEN \A i \in 1..Len(c.before) : c.before[i].version # c.version[1]
            ELSE c.before = <<>>

\* C3: when no baseline resolves, every current finding is added and removed,
\* modified and unchanged are empty.
C3_MissingBaselineIsEmpty ==
    (lastCall # None /\ NoBaselineResolves(lastCall[1])) =>
        LET c == lastCall[1]
        IN  /\ c.result.added = c.currentSecrets
            /\ c.result.removed = <<>>
            /\ c.result.modified = <<>>
            /\ c.result.unchanged = <<>>
            /\ c.result.summary.totalAdded = Len(c.currentSecrets)

\* A since in the future against a non-empty history.
C3_NoRecordSinceWitness ==
    /\ lastCall # None
    /\ NoBaselineResolves(lastCall[1])
    /\ lastCall[1].since # None
    /\ lastCall[1].since[1].valid
    /\ lastCall[1].before # <<>>
    /\ lastCall[1].result.summary.totalAdded = 2

\* C10: after an auditDiff call the newest record is the call's {version or
\* 'current', timestamp, currentSecrets, diff}, the history holds at most 50
\* records, and it is an end piece of the history before the call extended by
\* that record.
C10_AppendAndEvictOldest ==
    lastCall # None =>
        LET c == lastCall[1]
            h == history[c.auditor]
            record == [version |-> IF c.version = None THEN "current" ELSE c.version[1],
                       timestamp |-> c.time,
                       secrets |-> c.currentSecrets,
                       diff |-> c.result]
            full == Append(c.before, record)
        IN  /\ Len(h) >= 1
            /\ Len(h) <= 50
            /\ h[Len(h)] = record
            /\ h = SubSeq(full, Len(full) - Len(h) + 1, Len(full))

\* A call on a full history: the oldest record is gone.
C10_EvictionWitness ==
    /\ lastCall # None
    /\ Len(lastCall[1].before) = 50
    /\ Len(history[lastCall[1].auditor]) = 50
    /\ history[lastCall[1].auditor][1] = lastCall[1].before[2]

(***************************************************************************)
(* Properties of the audit log (SpecLog)                                   *)
(***************************************************************************)
\* C14: getAuditHistory(N), N >= 0, returns at most N records, namely the N
\* most recently appended ones in history order (all when fewer than N are
\* stored), and leaves the history as it was.
C14_QueryReturnsLastN ==
    lastQuery # None =>
        LET q == lastQuery[1]
            n == IF Len(q.before) < q.limit THEN Len(q.before) ELSE q.limit
        IN  /\ Len(q.result) <= q.limit
            /\ q.result = [k \in 1..n |-> q.before[Len(q.before) - n + k]]
            /\ history[q.auditor] = q.before

\* C20: the persisted log holds every record the auditDiff calls appended,
\* in call order at its end (fewer than 50 calls are made, so the cap evicts
\* none of them), whichever instances made the calls.
C20_NoAppendLost ==
    appended # <<>> =>
        /\ auditFile.exists
        /\ auditFile.valid
        /\ Len(auditFile.text) >= Len(appended)
        /\ SubSeq(auditFile.text, Len(auditFile.text) - Len(appended) + 1,
                  Len(auditFile.text)) = appended

(***************************************************************************)
(* Properties of generateReport (SpecReport)                               *)
(***************************************************************************)
\* The entry of a finding: its file:line and its pattern name.
ClaimedEntry(r) ==
    "  U+2022 " \o r.file \o ":" \o ToString(r.line) \o " - " \o r.pattern.name \o "\n"

\* The tier of a severity: nothing when no finding has it, else its heading
\* and the entries of its findings in input order.
ClaimedTier(results, severity, icon, heading) ==
    LET tier == {i \in 1..Len(results) : results[i].pattern.severity = severity}
        nth(k) == CHOOSE i \in tier : Cardinality({j \in tier : j <= i}) = k
    IN  IF tier = {} THEN ""
        ELSE icon \o " " \o heading \o " (" \o ToString(Cardinality(tier)) \o "):\n"
                 \o Concat([k \in 1..Cardinality(tier) |-> ClaimedEntry(results[nth(k)])])
                 \o "\n"

ClaimedReport(results) ==
    IF results = <<>> THEN "U+2705 No secrets found in scanned files."
    ELSE "U+1F6A8 Found " \o ToString(Len(results)) \o " potential secrets:\n\n"
             \o ClaimedTier(results, "critical", "U+1F6A8", "CRITICAL")
             \o ClaimedTier(results, "high", "U+26A0U+FE0F", "HIGH")
             \o ClaimedTier(results, "medium", "U+1F50D", "MEDIUM")
             \o ClaimedTier(results, "low", "U+2139U+FE0F", "LOW")

\* C16: the report of a finding list is its tiers in the order critical,
\* high, medium, low, a tier without finding left out, every finding listed
\* once under the tier of its severity as file:line and pattern name, in
\* input order within the tier; the call changes neither the list nor the
\* scanner.
C16_ReportIsPureFormatting ==
    /\ [](rReport # None => rReport[1] = ClaimedReport(rResults))
    /\ [][rResults' = rResults /\ scanVars' = scanVars]_vars

\* A report of three findings given low first, two of them critical, none
\* high.
C16_TwoTiersWitness ==
    /\ rReport # None
    /\ Len(rResults) = 3
    /\ rResults[1].pattern.severity = "low"
    /\ rResults[2].pattern.severity = "critical"
    /\ rResults[3].pattern.severity = "critical"
    /\ rResults[2] # rResults[3]

(***************************************************************************)
(* The scanner                                                             *)
(***************************************************************************)
\* The dedup key of a finding as the tuple it is made of.
KeyTuple(r) == <<r.file, r.line, r.column, r.value>>

KeyTuples(rs) == {KeyTuple(rs[i]) : i \in 1..Len(rs)}

\* C6: a scan called when a value is on the allow-list returns no finding
\* with exactly that value, whichever pattern the finding names (a default
\* pattern, a custom pattern or High Entropy String).
C6_AllowListedValueNeverReturned ==
    \A i \in 1..Len(lastScan) :
        \A k \in 1..Len(lastScan[i].returned) :
            lastScan[i].returned[k].value \notin Range(lastScan[i].atStart.allowedSecrets)

\* C7: no two findings of a returned result share the dedup key
\* (file, line, column, value).
C7_ReturnedKeysDistinct ==
    \A i \in 1..Len(lastScan) :
        \A j, k \in 1..Len(lastScan[i].returned) :
            j < k => KeyTuple(lastScan[i].returned[j]) # KeyTuple(lastScan[i].returned[k])

\* A returned result from which filterResults dropped a finding, the scan
\* having gone through several units.
C7_DuplicateDroppedWitness ==
    /\ lastScan # None
    /\ lastScan[1].started >= 2
    /\ Len(lastScan[1].returned) < lastScan[1].found
    /\ Len(lastScan[1].returned) >= 2

\* Two consecutive scans of one scanner with the same options, no addPattern
\* or addAllowedSecret call from the start of the first to the return of the
\* second, and no timeout expiry.
Repeated ==
    /\ prevScan # None
    /\ lastScan # None
    /\ prevScan[1].options = lastScan[1].options
    /\ prevScan[1].atStart = lastScan[1].atEnd
    /\ ~prevScan[1].expired
    /\ ~lastScan[1].expired

\* C8: scanning is idempotent: a repeated scan of the same content returns
\* the same set of findings as the scan before it; the first scan leaves no
\* match state behind that changes what the second finds.
C8_RepeatedScanSameFindings ==
    Repeated => Range(prevScan[1].returned) = Range(lastScan[1].returned)

\* A repeated scan over several units and lines that returns findings.
C8_RepeatedScanWitness ==
    /\ Repeated
    /\ lastScan[1].started >= 2
    /\ Len(lastScan[1].returned) >= 2

\* C9: a unit is started only by a step whose check of the elapsed time found
\* the timeout not expired, and it is the next unit in order; while the
\* timeout is expired no further unit is started; every finding collected
\* comes from a unit that was started; and the scan returns, expired or not,
\* the deduplicated findings collected from the units started.
C9_Step ==
    /\ Len(started') > Len(started) =>
          /\ ~(elapsed > scanOptions.timeout)
          /\ started' = Append(started, Len(started) + 1)
          /\ Len(started') <= Len(units)
    /\ (scanPc # "idle" /\ elapsed > scanOptions.timeout) =>
          /\ elapsed' > scanOptions.timeout \/ scanPc' = "idle"
          /\ Len(started') <= Len(started)
    /\ scanPc' # "idle" =>
          \A k \in 1..Len(scanResults') :
              \E u \in Range(started') : scanResults'[k].file = units'[u]
    /\ (scanPc # "idle" /\ scanPc' = "idle") =>
          /\ lastScan' # None
          /\ lastScan'[1].expired = (Len(started) < Len(units))
          /\ lastScan'[1].expired => elapsed > scanOptions.timeout
          /\ lastScan'[1].started = Len(started)
          /\ Range(lastScan'[1].returned) \subseteq Range(scanResults)
          /\ KeyTuples(lastScan'[1].returned) = KeyTuples(scanResults)

C9_TimeoutCheckedBeforeEachUnit == [][C9_Step]_vars

\* A scan of the file set with timeout 1 that returned findings after the
\* check before a later file found the timeout expired.
C9_PartialResultWitness ==
    /\ lastScan # None
    /\ lastScan[1].options.timeout = 1
    /\ lastScan[1].options.files = <<>>
    /\ lastScan[1].expired
    /\ lastScan[1].started >= 1
    /\ lastScan[1].started < lastScan[1].units
    /\ lastScan[1].returned # <<>>

\* The units of a request on which scanning fails: an inline entry whose
\* content is not a string; a file that cannot be read or is larger than
\* maxFileSize.
FailingUnits(options) ==
    IF options.files # <<>>
    THEN {options.files[k].file : k \in {j \in 1..Len(options.files) :
                                            options.files[j].content = None}}
    ELSE {path \in Range(getFiles(options.patterns)) :
              ~DiskFile(path).readable \/ DiskFile(path).size > options.maxFileSize}

\* What scanning the request's other units, one by one and each on its own,
\* finds.
RECURSIVE FoundInline(_, _, _)
FoundInline(entries, options, self) ==
    IF entries = <<>> THEN <<>>
    ELSE scanContent(entries[1].content, entries[1].file, options.entropy, self).results
             \o FoundInline(Tail(entries), options, self)

RECURSIVE FoundOnDisk(_, _, _)
FoundOnDisk(paths, options, self) ==
    IF paths = <<>> THEN <<>>
    ELSE scanFile(DiskFile(paths[1]), options.entropy, options.maxFileSize, self).results
             \o FoundOnDisk(Tail(paths), options, self)

FoundWithout(failing, options, self) ==
    IF options.files # <<>>
    THEN FoundInline(SelectSeq(options.files, LAMBDA e : e.file \notin failing),
                     options, self)
    ELSE FoundOnDisk(SelectSeq(getFiles(options.patterns), LAMBDA p : p \notin failing),
                     options, self)

\* What such a scan returns: the findings of the other units, deduplicated.
ReturnedWithout(options, registry) ==
    filterResults(FoundWithout(FailingUnits(options), options,
                               [customPatterns |-> registry.customPatterns,
                                allowedSecrets |-> registry.allowedSecrets,
                                heap |-> [o \in RegExpObjects |-> 0]]))

\* ReturnedWithout for the requests of the model that hold a failing unit and
\* the registries a scanner of the model gets to, worked out once.
WithoutTable ==
    [o \in {c \in OptionChoices : FailingUnits(c) # {}},
     r \in [customPatterns : {<<>>, <<ApiKeyPattern>>, <<GlobalKeyPattern>>},
            allowedSecrets : {<<>>, <<TestKey>>, <<ExampleSecret>>}] |->
        ReturnedWithout(o, r)] @@ <<>>

ExpectedWithout(table, options, registry) ==
    IF <<options, registry>> \in DOMAIN table THEN table[options, registry]
    ELSE ReturnedWithout(options, registry)

\* C11: a unit on which scanning fails gives no finding; a scan whose timeout
\* does not expire goes through every unit all the same and returns what the
\* other units of the request give when the failing ones are left out.
C11_FailingUnitSkipped ==
    \A i \in 1..Len(lastScan) :
        /\ \A k \in 1..Len(lastScan[i].returned) :
               lastScan[i].returned[k].file \notin FailingUnits(lastScan[i].options)
        /\ (~lastScan[i].expired /\ FailingUnits(lastScan[i].options) # {}) =>
               /\ lastScan[i].started = lastScan[i].units
               /\ lastScan[i].returned =
                      ExpectedWithout(WithoutTable, lastScan[i].options,
                                      lastScan[i].atStart)

\* An inline scan with an entry that throws between two others, then a scan
\* of the disk with its oversized and its unreadable file, both returning
\* findings of the unit after the failing ones.
C11_LaterUnitsScannedWitness ==
    /\ prevScan # None
    /\ lastScan # None
    /\ prevScan[1].options.files = <<SecretFile, BrokenEntry, KeyFile>>
    /\ prevScan[1].started = 3
    /\ \E k \in 1..Len(prevScan[1].returned) : prevScan[1].returned[k].file = "s.js"
    /\ lastScan[1].options.files = <<>>
    /\ FailingUnits(lastScan[1].options) = {"/p/big.bin", "/p/gone.js"}
    /\ lastScan[1].started = 4
    /\ \E k \in 1..Len(lastScan[1].returned) : lastScan[1].returned[k].file = "/p/t.js"

\* Two consecutive scans of one scanner with the same options and no timeout
\* expiry, between which addAllowedSecret was called once and nothing else.
AllowListedBetween ==
    /\ prevScan # None
    /\ lastScan # None
    /\ prevScan[1].options = lastScan[1].options
    /\ ~prevScan[1].expired
    /\ ~lastScan[1].expired
    /\ lastScan[1].atStart.customPatterns = prevScan[1].atEnd.customPatterns
    /\ Len(lastScan[1].atStart.allowedSecrets)
           = Len(prevScan[1].atEnd.allowedSecrets) + 1
    /\ lastScan[1].atEnd = lastScan[1].atStart

\* What the claim compares of a finding.
Reported5(r) == <<r.file, r.line, r.column, r.pattern, r.value>>

\* C13: adding v to the allow-list changes what a later scan returns only by
\* removing findings whose value is v: every finding of the earlier scan with
\* another value is returned again with the same file, line, column, pattern
\* and value, and the later scan returns no finding the earlier did not.
C13_AllowListOnlyRemovesItsValue ==
    AllowListedBetween =>
        LET before == prevScan[1].returned
            after == lastScan[1].returned
            listed == lastScan[1].atStart.allowedSecrets
            v == listed[Len(listed)]
        IN  /\ \A k \in 1..Len(before) :
                   before[k].value # v =>
                       \E j \in 1..Len(after) : Reported5(after[j]) = Reported5(before[k])
            /\ \A j \in 1..Len(after) :
                   \E k \in 1..Len(before) : Reported5(before[k]) = Reported5(after[j])
(***************************************************************************)
(* The pattern registry.                                                   *)
(***************************************************************************)
\* addPattern(pattern) puts pattern behind what getPatterns() returned,
\* addAllowedSecret leaves what it returned as it was, and no step removes,
\* moves or replaces a pattern it returned.
C15_Step ==
    LET before == getPatterns(customPatterns)
        after  == getPatterns(customPatterns')
    IN  /\ \A pattern \in RegistryPatterns :
               AddPatternUpTo(pattern, MaxRegistry) => after = Append(before, pattern)
        /\ \A secret \in RegistrySecrets :
               AddAllowedSecretUpTo(secret, MaxRegistry) => after = before
        /\ Len(after) >= Len(before)
        /\ SubSeq(after, 1, Len(before)) = before

\* C15: getPatterns() returns the built-in patterns followed by the patterns
\* passed at construction and then the patterns added, in the order they were
\* added: it starts as the built-in patterns followed by the constructor's,
\* every call leaves the patterns already returned in place, addPattern puts
\* its pattern last, and addAllowedSecret changes nothing of it.
C15_RegistryOnlyGrows ==
    /\ \E c \in ConstructorChoices :
           getPatterns(customPatterns) = defaultPatterns \o c.patterns
    /\ [][C15_Step]_vars

\* A pattern passed at construction, one added after it, and a value added to
\* the allow-list: the patterns are returned behind the built-in ones.
C15_ConstructedThenAddedWitness ==
    /\ customPatterns = <<ApiKeyPattern, GlobalKeyPattern>>
    /\ allowedSecrets = <<TestKey, ExampleSecret>>
    /\ getPatterns(customPatterns)
           = defaultPatterns \o <<ApiKeyPattern, GlobalKeyPattern>>

(***************************************************************************)
(* Inline content and the filesystem.                                      *)
(***************************************************************************)
InlineIds(files) == {files[k].file : k \in 1..Len(files)}

\* C17: a scan whose files list is not empty resolves no glob and reads no
\* file: it never is in the loop over the file paths, its units are the
\* inline entries, and every finding it collects and returns carries the
\* identifier of an inline entry, whatever the patterns of the request; a
\* scan whose files list is empty loops over the paths the globs resolve to.
C17_InlineBypassesFilesystem ==
    /\ scanPc # "idle" =>
           IF scanOptions.files # <<>>
           THEN /\ scanPc = "inline"
                /\ units = [k \in 1..Len(scanOptions.files) |->
                                scanOptions.files[k].file]
                /\ \A k \in 1..Len(scanResults) :
                       scanResults[k].file \in InlineIds(scanOptions.files)
           ELSE /\ scanPc = "fs"
                /\ units = getFiles(scanOptions.patterns)
    /\ lastScan # None /\ lastScan[1].options.files # <<>> =>
           \A k \in 1..Len(lastScan[1].returned) :
               lastScan[1].returned[k].file \in InlineIds(lastScan[1].options.files)

\* A scan of one inline entry whose glob matches a file on disk that holds a
\* finding: the finding returned is the inline entry's.
C17_GlobWithInlineWitness ==
    /\ lastScan # None
    /\ lastScan[1].options.files = <<KeyFile>>
    /\ lastScan[1].options.patterns = <<OneFile>>
    /\ getFiles(<<OneFile>>) # <<>>
    /\ Len(lastScan[1].returned) > 0
    /\ \A k \in 1..Len(lastScan[1].returned) :
           lastScan[1].returned[k].file = KeyFile.file

(***************************************************************************)
(* The AWS access key line.                                                *)
(***************************************************************************)
\* scan({files: [entry]}): every other option at its default.
DefaultsOn(entry) ==
    [files |-> <<entry>>, patterns |-> <<AllFiles>>, entropy |-> DefaultEntropy,
     timeout |-> DefaultTimeout, maxFileSize |-> DefaultMaxFileSize]

\* The last scan was of the one line `const key = "AKIA1234567890ABCD12";`
\* with the default options, by a scanner without custom patterns.
ScannedKeyLine ==
    /\ lastScan # None
    /\ KeyFile.content = <<KeyLine>>
    /\ lastScan[1].options = DefaultsOn(KeyFile)
    /\ lastScan[1].atStart.customPatterns = <<>>
    /\ lastScan[1].atEnd.customPatterns = <<>>

\* C18: scanning the single line `const key = "AKIA1234567890ABCD12";` with
\* only the built-in patterns and the default options returns exactly one
\* finding, of the pattern named AWS Access Key and of severity critical: no
\* other built-in pattern and no High Entropy String finding is returned.
C18_KeyLineOneAwsFinding ==
    ScannedKeyLine =>
        /\ Len(lastScan[1].returned) = 1
        /\ lastScan[1].returned[1].pattern.name = "AWS Access Key"
        /\ lastScan[1].returned[1].pattern.severity = "critical"
        /\ lastScan[1].returned[1].file = KeyFile.file
        /\ lastScan[1].returned[1].line = 1

\* The line has been scanned so, the sweep for high-entropy tokens has gone
\* over it and its token is above the threshold.
C18_KeyLineScannedWitness ==
    /\ ScannedKeyLine
    /\ lastScan[1].found > 0
    /\ \E m \in Range(matchAll(potentialSecretPattern, KeyLine, 0)) :
           calculateEntropy(Matched(KeyLine, m)) >= DefaultEntropy

(***************************************************************************)
(* The order of the audit history.                                         *)
(***************************************************************************)
TimeOrdered(h) == \A i \in 1..Len(h) : \A j \in i..Len(h) : h[i].timestamp <= h[j].timestamp

\* C21: the record timestamps of the audit history never decrease from the
\* oldest record to the newest, in the history an auditor holds and in the
\* history the audit file holds, after any auditDiff calls with any selectors,
\* the ones that evict a record included.
C21_HistoryTimeOrdered ==
    /\ \A a \in Auditors : TimeOrdered(history[a])
    /\ TimeOrdered(loadAuditHistory(auditFile))

\* A call on a full history at a later millisecond than the record before it:
\* the oldest record is gone and the newest timestamp is the largest.
C21_LaterRecordAfterEvictionWitness ==
    /\ lastCall # None
    /\ Len(lastCall[1].before) = HistoryCap
    /\ LET h == history[lastCall[1].auditor]
       IN  /\ Len(h) = HistoryCap
           /\ h[1] = lastCall[1].before[2]
           /\ h[Len(h)].timestamp = lastCall[1].time
           /\ h[Len(h)].timestamp > h[Len(h) - 1].timestamp

(***************************************************************************)
(* Files and inline entries.                                               *)
(***************************************************************************)
\* The last two scans, by the same scanner with the same registry, threshold
\* and timeout and neither cut short by the timeout, were one of the files of
\* the disk and one of inline entries holding the paths and contents of the
\* disk's files within the size limit.
ScannedBothWays(onDisk, inline) ==
    /\ onDisk # None /\ inline # None
    /\ onDisk[1].options.files = <<>>
    /\ onDisk[1].options.patterns = <<AllFiles>>
    /\ inline[1].options.files = DiskImage
    /\ onDisk[1].options.entropy = inline[1].options.entropy
    /\ onDisk[1].options.maxFileSize = inline[1].options.maxFileSize
    /\ ~onDisk[1].expired /\ ~inline[1].expired
    /\ onDisk[1].atStart = inline[1].atStart
    /\ onDisk[1].atEnd = inline[1].atEnd
    /\ onDisk[1].atStart = onDisk[1].atEnd

SweepLabel == "High Entropy String"

\* Findings i and j of a list are of one token, i a named pattern's and j the
\* sweep's.
FlaggedTwice(list, i, j) ==
    /\ list[i].pattern.name # SweepLabel
    /\ list[j].pattern.name = SweepLabel
    /\ list[i].file = list[j].file
    /\ list[i].line = list[j].line
    /\ list[i].column = list[j].column
    /\ list[i].value = list[j].value

\* C23: when a named pattern and the sweep for high-entropy tokens flag the
\* same token under different labels, the scan result keeps both findings,
\* one per label.
C23_BothLabelsKept ==
    lastScan # None =>
        LET c == lastScan[1].collected
        IN  \A i \in 1..Len(c) : \A j \in 1..Len(c) :
                FlaggedTwice(c, i, j) =>
                    /\ c[i] \in Range(lastScan[1].returned)
                    /\ c[j] \in Range(lastScan[1].returned)

\* The first finding of a list whose dedup key is that of finding i.
FirstWithKey(list, i) ==
    list[MinOf({k \in 1..Len(list) : DedupKey(list[k]) = DedupKey(list[i])})]

\* C23, amended: when a named pattern and the sweep flag the same token of a
\* content unit (the same file, line, column and value), the scan result
\* keeps exactly one finding for the token, the one collected first; the
\* units of a request having different file identifiers, that is a named
\* pattern's finding and not the sweep's.
C23_TokenKeptOnceUnderNamedLabel ==
    lastScan # None =>
        LET c == lastScan[1].collected
            r == lastScan[1].returned
        IN  \A i \in 1..Len(c) : \A j \in 1..Len(c) :
                FlaggedTwice(c, i, j) =>
                    /\ Cardinality({k \in 1..Len(r) : DedupKey(r[k]) = DedupKey(c[i])}) = 1
                    /\ \E k \in 1..Len(r) :
                           /\ r[k] = FirstWithKey(c, i)
                           /\ r[k].pattern.name # SweepLabel
                    /\ c[j] \notin Range(r)

\* A scan that collected a token under a named label and under the sweep's.
C23_FlaggedTwiceWitness ==
    /\ lastScan # None
    /\ \E i, j \in 1..Len(lastScan[1].collected) :
           /\ FlaggedTwice(lastScan[1].collected, i, j)
           /\ lastScan[1].collected[i] \in Range(lastScan[1].returned)

(***************************************************************************)
(* The named-pattern matching rule.                                        *)
(***************************************************************************)
\* The units a scan went through without a failure, as {file, content}.
ScannedUnits(scan) ==
    IF scan.options.files # <<>>
    THEN {scan.options.files[k] : k \in {j \in 1..scan.started :
                                            scan.options.files[j].content # None}}
    ELSE {InlineOf(DiskFile(getFiles(scan.options.patterns)[k])) :
              k \in {j \in 1..scan.started :
                        LET f == DiskFile(getFiles(scan.options.patterns)[j])
                        IN  f.readable /\ f.size <= scan.options.maxFileSize}}

\* The pre-dedup findings of a scan that carry the pattern, the file, the
\* line, the column of the match start and the matched text of match m.
FindingsOf(scan, pattern, unit, lineNum, m) ==
    {k \in 1..Len(scan.collected) :
        /\ scan.collected[k].pattern = PatternRef(pattern)
        /\ scan.collected[k].file = unit.file
        /\ scan.collected[k].line = lineNum
        /\ scan.collected[k].column = m.index + 1
        /\ scan.collected[k].value = Text(Matched(unit.content[lineNum], m))}

\* The two cases in which a match gives no finding.
SkippedMatch(scan, pattern, chars) ==
    \/ Text(chars) \in Range(scan.atStart.allowedSecrets)
    \/ pattern.entropy # 0 /\ calculateEntropy(chars) < pattern.entropy

RuleHoldsFor(scan, patterns) ==
    \A unit \in ScannedUnits(scan) : \A p \in 1..Len(patterns) :
        \A lineNum \in 1..Len(unit.content) :
            unit.content[lineNum] # <<>> =>
                \A m \in Range(matchAll(patterns[p].alts, unit.content[lineNum], 0)) :
                    Cardinality(FindingsOf(scan, patterns[p], unit, lineNum, m))
                        = IF SkippedMatch(scan, patterns[p],
                                          Matched(unit.content[lineNum], m))
                          THEN 0 ELSE 1

\* C24: for every registered pattern, default or custom, and every non-empty
\* line of a content unit, each non-overlapping match of the pattern on the
\* line gives exactly one pre-dedup finding with that pattern, the line, the
\* column of the match start and the matched text, unless the value is on the
\* allow-list or below the pattern's entropy gate, and then it gives none.
C24_EveryMatchGivesOneFinding ==
    lastScan # None =>
        RuleHoldsFor(lastScan[1], getPatterns(lastScan[1].atStart.customPatterns))

(***************************************************************************)
(* The findings of the sweep for high-entropy tokens.                      *)
(***************************************************************************)
AllIn(chars, lo, hi, class) == \A i \in lo..hi : chars[i] \in class

\* The false-positive shapes: 32, 40 or 64 lowercase hex characters; 22
\* base64 characters with up to two "="; ten or more decimal digits; two or
\* more uppercase letters, then two or more digits, then uppercase letters
\* and digits.
HashShape(chars) == Len(chars) \in {32, 40, 64} /\ AllIn(chars, 1, Len(chars), HexLow)

UuidShape(chars) ==
    /\ Len(chars) \in 22..24
    /\ AllIn(chars, 1, 22, Alnum \cup {"+", "/"})
    /\ AllIn(chars, 23, Len(chars), {"="})

NumberShape(chars) == Len(chars) >= 10 /\ AllIn(chars, 1, Len(chars), Digits)

ProductCodeShape(chars) ==
    \E a \in 2..Len(chars) : \E b \in (a + 2)..Len(chars) :
        /\ AllIn(chars, 1, a, Uppers)
        /\ AllIn(chars, a + 1, b, Digits)
        /\ AllIn(chars, b + 1, Len(chars), Uppers \cup Digits)

FalsePositiveShape(chars) ==
    HashShape(chars) \/ UuidShape(chars) \/ NumberShape(chars) \/ ProductCodeShape(chars)

\* The candidate tokens of the units a scan went through: <<file, line,
\* column, characters>>.
Candidates(scan) ==
    UNION {UNION {{<<unit.file, lineNum, m.index + 1, Matched(unit.content[lineNum], m)>> :
                      m \in Range(matchAll(potentialSecretPattern,
                                           unit.content[lineNum], 0))} :
                  lineNum \in {n \in 1..Len(unit.content) : unit.content[n] # <<>>}} :
           unit \in ScannedUnits(scan)}

UnselectedAfterCall ==
    /\ lastCall # None
    /\ lastCall[1].compareTo = None
    /\ lastCall[1].since = None
    /\ lastCall[1].version = None
    /\ Len(appended) >= 2

\* C26: an auditDiff call with none of compareTo, since and version compares
\* against the currentSecrets of the call before it, whatever selector that
\* call had; when its own currentSecrets are the same, it reports no added and
\* no removed finding.
C26_UnselectedComparesWithPrecedingCall ==
    UnselectedAfterCall =>
        LET preceding == appended[Len(appended) - 1]
        IN  /\ lastCall[1].baseline = preceding.secrets
            /\ lastCall[1].currentSecrets = preceding.secrets =>
                   /\ lastCall[1].result.added = <<>>
                   /\ lastCall[1].result.removed = <<>>

\* The first call on an empty history reported nothing added for a list that
\* is not empty, so it compared against a compareTo list; the second call,
\* without a selector, had the same currentSecrets.
C26_AfterCompareToWitness ==
    /\ UnselectedAfterCall
    /\ Len(lastCall[1].before) = 1
    /\ lastCall[1].before[1] = appended[1]
    /\ appended[1].secrets # <<>>
    /\ appended[1].diff.added = <<>>
    /\ lastCall[1].currentSecrets = appended[1].secrets
    /\ lastCall[1].result.added = <<>>

(***************************************************************************)
(* The baseline of a call with a version label.                            *)
(***************************************************************************)
\* The last call had a version label and neither compareTo nor since.
SelectedByVersion ==
    /\ lastCall # None
    /\ lastCall[1].compareTo = None
    /\ lastCall[1].since = None
    /\ lastCall[1].version # None

\* The places of the records of a history that carry a label.
Labelled(h, label) == {k \in 1..Len(h) : h[k].version = label}

\* C27: an auditDiff call with a version label and neither compareTo nor
\* since compares against the oldest record of the history that carries the
\* label, also when newer records carry it, and against nothing when none
\* does.
C27_VersionComparesWithOldestLabelled ==
    SelectedByVersion =>
        LET h == lastCall[1].before
            at == Labelled(h, lastCall[1].version[1])
        IN  IF at = {} THEN lastCall[1].baseline = <<>>
            ELSE lastCall[1].baseline = h[MinOf(at)].secrets

\* Two calls under one label on a full history in which older records carry
\* the label: the first call evicted the oldest of them and stored its own
\* record under the label; the second compared against the oldest left, which
\* is neither the first call's record nor the newest with the label.
C27_RepeatedLabelWitness ==
    /\ SelectedByVersion
    /\ Len(appended) = 2
    /\ appended[1].version = lastCall[1].version[1]
    /\ LET h == lastCall[1].before
           at == Labelled(h, lastCall[1].version[1])
       IN  /\ Len(h) = HistoryCap
           /\ h[Len(h)] = appended[1]
           /\ Cardinality(at) >= 3
           /\ MinOf(at) > 1
           /\ lastCall[1].baseline = h[MinOf(at)].secrets
           /\ lastCall[1].baseline # h[MaxOf(at)].secrets

(***************************************************************************)
(* A list diffed against itself.                                           *)
(***************************************************************************)
\* C28: the diff of a finding list against itself has no added, no removed
\* and no modified finding, has every finding of the list in unchanged and
\* has riskLevel low, also when two findings of the list share (file, line,
\* pattern name).
C28_SelfDiffReportsNoChange ==
    dPc = "diffed" /\ dBaseline = dCurrent =>
        /\ dResult[1].added = <<>>
        /\ dResult[1].removed = <<>>
        /\ dResult[1].modified = <<>>
        /\ \A i \in 1..Len(dCurrent) : dCurrent[i] \in Range(dResult[1].unchanged)
        /\ dResult[1].summary.riskLevel = "low"

(***************************************************************************)
(* Which of the findings that share a dedup key is kept.                   *)
(***************************************************************************)
\* The units of a request in request order, by file identifier.
UnitIds(options) ==
    IF options.files # <<>>
    THEN [k \in 1..Len(options.files) |-> options.files[k].file]
    ELSE getFiles(options.patterns)

\* Where a finding stands in the processing order: the place of its unit in
\* the request, then the place of its pattern among the default patterns
\* followed by the custom ones, the sweep standing behind them all.
UnitPlace(scan, finding) ==
    MinOf({k \in 1..Len(UnitIds(scan.options)) : UnitIds(scan.options)[k] = finding.file})

PatternPlace(patterns, finding) ==
    IF finding.pattern.name = SweepLabel THEN Len(patterns) + 1
    ELSE MinOf({p \in 1..Len(patterns) : PatternRef(patterns[p]) = finding.pattern})

InProcessingOrder(scan, patterns, a, b) ==
    \/ UnitPlace(scan, a) < UnitPlace(scan, b)
    \/ /\ UnitPlace(scan, a) = UnitPlace(scan, b)
       /\ PatternPlace(patterns, a) <= PatternPlace(patterns, b)

\* The places of the pre-dedup findings before which no finding has their key.
FirstOfKey(c) ==
    {i \in 1..Len(c) :
        \A j \in 1..(i - 1) :
            <<c[j].file, c[j].line, c[j].column, c[j].value>>
                # <<c[i].file, c[i].line, c[i].column, c[i].value>>}

\* C29: the pre-dedup findings stand in processing order (units in request
\* order; in a unit the default patterns, then the custom patterns in
\* registration order, then the sweep for high-entropy tokens); of the
\* findings that share the key (file, line, column, value) the scan returns
\* the first and drops the others, and the findings returned stand in the
\* order they had before.
C29_FirstOfKeyKeptInOrder ==
    lastScan # None =>
        LET c == lastScan[1].collected
            r == lastScan[1].returned
            patterns == getPatterns(lastScan[1].atStart.customPatterns)
            keep == FirstOfKey(c)
        IN  /\ \A i \in 1..Len(c) : \A j \in i..Len(c) :
                   InProcessingOrder(lastScan[1], patterns, c[i], c[j])
            /\ Len(r) = Cardinality(keep)
            /\ \A k \in 1..Len(r) :
                   \E i \in keep :
                       /\ Cardinality({j \in keep : j <= i}) = k
                       /\ r[k] = c[i]

\* A scan over two units by a scanner with a custom pattern: the custom
\* pattern gave a finding behind a default pattern's, and a finding of the
\* sweep was dropped for a named pattern's finding with its key, which is
\* returned ahead of a finding that was collected after the dropped one.
C29_DroppedBehindFirstWitness ==
    /\ lastScan # None
    /\ lastScan[1].atStart.customPatterns # <<>>
    /\ LET c == lastScan[1].collected
           r == lastScan[1].returned
       IN  /\ \E i \in 1..Len(c) :
                  c[i].pattern = PatternRef(lastScan[1].atStart.customPatterns[1])
           /\ \E i \in 1..Len(c) : \E j \in (i + 1)..Len(c) :
                  /\ FlaggedTwice(c, i, j)
                  /\ j < Len(c)
                  /\ c[j] \notin Range(r)
                  /\ c[Len(c)] = r[Len(r)]
                  /\ c[Len(c)].file # c[j].file

(***************************************************************************)
(* The entropy threshold that switches the sweep off.                      *)
(***************************************************************************)
\* The findings of a list that a named pattern gave.
NamedOf(list) == SelectSeq(list, LAMBDA r : r.pattern.name # SweepLabel)

\* Two scans of the same request but for the threshold, by the same scanner
\* with the same registry: `off` under a threshold of 0 or below, `on` under
\* a threshold above 0.
OffAndOn(off, on) ==
    /\ off # None /\ on # None
    /\ off[1].options.entropy <= 0
    /\ on[1].options.entropy > 0
    /\ off[1].options.files = on[1].options.files
    /\ off[1].options.patterns = on[1].options.patterns
    /\ off[1].options.timeout = on[1].options.timeout
    /\ off[1].options.maxFileSize = on[1].options.maxFileSize
    /\ ~off[1].expired /\ ~on[1].expired
    /\ off[1].atStart = on[1].atStart

====
